---- MODULE Spec2Model ----
(***************************************************************************)
(* The media-upload and inference pipeline of football-ai.                 *)
(*                                                                         *)
(*  - the two server functions of supabase/functions (the detection        *)
(*    function, index.ts lines 1-371, and the player-performance function, *)
(*    index.ts lines 372-905): request handler, resumable upload,          *)
(*    readiness poller, inference retry loop, deletion;                    *)
(*  - the client service src/services/geminiAI.ts: the entry-point checks  *)
(*    and the static-frame detection loop with its filter and normalizer,  *)
(*    and the older detection loop kept in src/unnamed/part_007;           *)
(*  - the JSON extractors (extractJsonFromText, extractJsonFromString);    *)
(*  - the frame sampler (extractBestFrameFromVideo of part_007 and         *)
(*    extractFrameAtTimestamp of geminiAI.ts);                             *)
(*  - the lazy initialization of the inference client (initializeGenAI,    *)
(*    ensureModelInitialized) with concurrent callers.                     *)
(*                                                                         *)
(* Units.  File sizes are counted in KiB (2 GiB in bytes is 2^31, one more *)
(* than the largest integer TLC holds).  Time is counted in ticks of       *)
(* 1/3125 ms, the unit in which every value 5000 * 1.2^k below the 30 s    *)
(* cap is a whole number.  Confidence is counted in hundredths.  The       *)
(* sampler counts durations in tenths of a second and holds its times as   *)
(* fractions.                                                              *)
(***************************************************************************)
EXTENDS Integers, Sequences, FiniteSets, TLC

VARIABLES
    handler,        \* which serve() function runs: "detection" | "performance"
    pc,             \* position of the request's async task
    fileSize,       \* videoFile.size
    posts,          \* upload-initiation POSTs issued
    puts,           \* PUT calls issued, in order: [offset, length, command]
    chunk,          \* loop variable i of the chunk loop
    checkInterval,  \* waitForFileProcessing: checkInterval
    elapsed,        \* waitForFileProcessing: Date.now() - startTime
    wait,           \* duration of the pending setTimeout
    prevWait,       \* duration of the previous poller wait (0: none yet)
    lastStatus,     \* outcome of the latest status GET
    polls,          \* status GETs issued is at least one
    errs,           \* failed status polls so far (bounded by MaxStatusErrors)
    processing,     \* status GETs of this request answered with a state that
                    \* is neither ACTIVE nor FAILED, counted up to MaxProcessing
    attempts,       \* inference loop: attempts / attempt
    inferCalls,     \* inference POSTs issued
    lastError,      \* inference loop: lastError / attemptError, with its cause
    netErrors,      \* inference attempts that failed on the network
    players,        \* analysisResult.players
    result,         \* processedPlayers returned by the detection step
    performanceData, \* what the performance handler answers with
    deletes,        \* DELETE calls issued
    deleteOutcome,  \* how the DELETE call ended ("none": not yet)
    response,       \* the HTTP response of the handler, or what the client
                    \* method returned or threw
    typeOk,         \* client: videoFile.type starts with "video/"
    reply,          \* client: the players array of the latest reply, unfiltered
    compressions,   \* client: compressVideo runs started
    serverCalls,    \* client: requests sent to the performance function
    wrapped,        \* extractor: the object, prefix and suffix the text is made of
    text,           \* extractor: the text handed to extractJsonFromText
    extracted,      \* extractor: what the extractor returned or threw
    acks,           \* outcomes of the PUTs answered so far, in order
    sampler,        \* sampler: which frame extraction runs
    spc,            \* sampler: position of the extraction
    duration,       \* sampler: video.duration in tenths of a second
    ratio,          \* sampler: the argument timestampRatio
    numSamples,     \* sampler: numSamples
    samplePoints,   \* sampler: samplePoints
    sampleIndex,    \* sampler: index of the sample point the loop is at
    currentTime,    \* sampler: video.currentTime as last assigned
    position,       \* sampler: the position the decoder has reached
    seeks,          \* sampler: seeks started
    seeking,        \* sampler: seeks started and not completed
    seekedFor,      \* sampler: index of the sample point whose wait for seeked is over
    frames,         \* sampler: frames drawn, with the position of the decoder at the draw
    maxPlayerCount, \* sampler: maxPlayerCount
    bestTimestamp,  \* sampler: bestTimestamp
    settled,        \* sampler: state of the promise the extraction returns
    returned,       \* sampler: timestamp the promise resolved with
    fallbackData,   \* what generateFallbackPerformanceData returned
    PROD,           \* import.meta.env.PROD
    genAI,          \* the module-level client, 0 is null, else the number of the instance
    model,          \* this.model, 0 is null, else the instance it was made from
    ipc,            \* position of each caller of ensureModelInitialized
    genAIInstance,  \* the instance each initializeGenAI call resolved to
    constructed,    \* number of new GoogleGenerativeAI(apiKey)
    keyFetched,     \* number of answered requests for the API key
    got             \* the instance behind the model each caller got

vars == <<handler, pc, fileSize, posts, puts, chunk, checkInterval, elapsed,
          wait, prevWait, lastStatus, polls, errs, processing, attempts,
          inferCalls, lastError, netErrors,
          players, result, performanceData, deletes, deleteOutcome, response,
          typeOk, reply, compressions, serverCalls, wrapped, text, extracted,
          acks,
          sampler, spc, duration, ratio, numSamples, samplePoints,
          sampleIndex, currentTime, position, seeks, seeking, seekedFor,
          frames, maxPlayerCount, bestTimestamp, settled, returned,
          fallbackData,
          PROD, genAI, model, ipc, genAIInstance, constructed, keyFetched, got>>
clientVars == <<typeOk, reply, compressions, serverCalls>>

\* The state of a frame extraction of the client.
samplerVars == <<sampler, spc, duration, ratio, numSamples, samplePoints,
                 sampleIndex, currentTime, position, seeks, seeking, seekedFor,
                 frames, maxPlayerCount, bestTimestamp, settled, returned>>

\* A time as a fraction of tenths of a second, and no time.
Rat(n, d) == [num |-> n, den |-> d]
NoTime == Rat(0, 0)

\* No generated performance data.
NoData == [overall |-> 0, speed |-> 0]

\* The state of the lazily initialized inference client of the browser.
initVars == <<PROD, genAI, model, ipc, genAIInstance, constructed, keyFetched,
              got>>

\* The concurrent callers of ensureModelInitialized.
MaxCallers == 3
Callers == 1..MaxCallers
NotCalled == [c \in Callers |-> "idle"]
NoInstance == [c \in Callers |-> 0]

\* What the inference loop keeps of its failed attempts.
failureVars == <<lastError, netErrors>>
extractorVars == <<wrapped, text, extracted>>

Min(a, b) == IF a < b THEN a ELSE b
Max(a, b) == IF a > b THEN a ELSE b

----------------------------------------------------------------------------
(* Bounds of the model *)

\* Largest number of full chunks among the sampled file sizes.
MaxChunks == 2
\* Largest number of failed or FAILED status polls in one run.
MaxStatusErrors == 2

----------------------------------------------------------------------------
(* Program constants *)

KiBPerMiB == 1024
TicksPerMs == 5 * 5 * 5 * 5 * 5

\* index.ts:550   const MAX_CHUNK_SIZE = 50 * 1024 * 1024
MAX_CHUNK_SIZE == 50 * KiBPerMiB
\* index.ts:417   const MAX_SIZE_MB = 500
MAX_SIZE_MB == 500
\* geminiAI.ts:86  MAX_FILE_SIZE = 2 * 1024 * 1024 * 1024
MAX_FILE_SIZE == 2 * 1024 * KiBPerMiB

\* index.ts:658   maxWaitTime = 600000 (performance function)
maxWaitTime == 600000 * TicksPerMs
\* index.ts:135   maxWaitTime = 300000 (detection function)
maxWaitTime_detection == 300000 * TicksPerMs
\* index.ts:661   let checkInterval = 5000
InitialCheckInterval == 5000 * TicksPerMs
\* index.ts:683   the cap 30000 of Math.min(checkInterval * 1.2, 30000)
MaxCheckInterval == 30000 * TicksPerMs
\* index.ts:157   setTimeout(resolve, 5000)
FixedCheckInterval == 5000 * TicksPerMs

----------------------------------------------------------------------------
(* Inputs *)

\* 1.5 GiB
LargeAsset == 1536 * KiBPerMiB

\* Sizes of the uploaded file: empty, tiny, at and just above each multiple
\* of the chunk size, at and just above the server limit and the 2 GiB limit,
\* and 1.5 GiB.
FileSizes ==
    {0, 1}
    \cup {k * MAX_CHUNK_SIZE + d : k \in 1..MaxChunks, d \in {0, 1}}
    \cup {MAX_SIZE_MB * KiBPerMiB, MAX_SIZE_MB * KiBPerMiB + 1,
          MAX_FILE_SIZE, MAX_FILE_SIZE + 1, LargeAsset}

\* What the handler finds in the request.
Requests == {"ok", "options", "badform", "missing"}

\* Time a status GET takes: an answered request takes no measurable time,
\* a request that fails on the network takes 20 s to fail.
FetchLatency(outcome) ==
    IF outcome = "neterr" THEN {20000 * TicksPerMs} ELSE {0}

----------------------------------------------------------------------------
(* Chunked upload: uploadVideoToFilesAPI *)

\* chunks with the division rounded down.
chunks_floor(size) == size \div MAX_CHUNK_SIZE

\* Math.ceil(fileSize / MAX_CHUNK_SIZE)
chunks(size) == (size + MAX_CHUNK_SIZE - 1) \div MAX_CHUNK_SIZE

start(i) == i * MAX_CHUNK_SIZE

end(i, size) == Min(start(i) + MAX_CHUNK_SIZE, size)

isLastChunk(i, size) == i = chunks(size) - 1

command(i, size) == IF isLastChunk(i, size) THEN "upload, finalize" ELSE "upload"

\* The PUT of chunk i.
ChunkPut(i, size) ==
    [offset |-> start(i), length |-> end(i, size) - start(i),
     command |-> command(i, size)]

\* The single PUT of a file that is not chunked.
WholePut(size) == [offset |-> 0, length |-> size, command |-> "upload, finalize"]


----------------------------------------------------------------------------
(* Readiness poller: waitForFileProcessing *)

\* NextCheckInterval without the cap.
NextCheckInterval_uncapped(ci) == (ci * 6) \div 5

\* Math.min(checkInterval * 1.2, 30000); the product is exact in ticks
\* whenever it is below the cap.
NextCheckInterval(ci) ==
    IF ci * 6 >= MaxCheckInterval * 5 THEN MaxCheckInterval ELSE (ci * 6) \div 5

\* Outcomes of one status GET: the request throws, answers non-2xx, or
\* answers 2xx with a state.
StatusOutcomes == {"neterr", "notok", "ACTIVE", "FAILED", "PROCESSING", "OTHER"}

StatusErrors == {"neterr", "notok", "FAILED"}

\* The loop condition  Date.now() - startTime < maxWaitTime.
MaxWaitOf(h) == IF h = "performance" THEN maxWaitTime ELSE maxWaitTime_detection

----------------------------------------------------------------------------
(* Raw model output *)

Num(n) == [t |-> "number", v |-> n]
Str(n) == [t |-> "string", v |-> n]
Undef == [t |-> "undefined", v |-> 0]

IsNumber(f) == f.t = "number"

\* JavaScript truthiness of a field that holds a number, a non-empty
\* string of digits or nothing.
Truthy(f) == \/ f.t = "number" /\ f.v # 0
             \/ f.t = "string"

\* One element of the reply's players array.
RawPlayer(id, x, y, w, h, c, jersey, team, ref) ==
    [id |-> id, x |-> x, y |-> y, width |-> w, height |-> h,
     confidence |-> c, jersey |-> jersey, team |-> team, isReferee |-> ref]

RawPlayers ==
    { RawPlayer(Num(1), Num(10), Num(10), Num(8), Num(18), Num(90), Undef, "home", FALSE),
      RawPlayer(Num(7), Num(40), Num(30), Num(8), Num(18), Num(95), Str(7), "away", TRUE),
      RawPlayer(Num(2), Num(150), Num(10), Num(8), Num(18), Num(90), Str(9), "", FALSE),
      RawPlayer(Num(0), Num(98), Num(94), Num(2), Num(6), Num(70), Undef, "away", FALSE),
      RawPlayer(Num(1), Num(20), Num(20), Num(8), Num(18), Num(30), Undef, "home", FALSE),
      RawPlayer(Undef, Undef, Undef, Undef, Undef, Undef, Undef, "", FALSE) }

\* Largest players array in a reply.
MaxPlayers == 2

\* Answers that find the file still processing are counted up to this
\* number; it stands for any larger number too.
MaxProcessing == 6

RECURSIVE SeqsUpTo(_, _)
SeqsUpTo(S, n) ==
    IF n = 0 THEN {<<>>}
    ELSE LET shorter == SeqsUpTo(S, n - 1)
         IN shorter \cup {Append(s, e) : s \in {q \in shorter : Len(q) = n - 1}, e \in S}

RawArrays == SeqsUpTo(RawPlayers, MaxPlayers)

\* Ways an inference attempt fails before a players array is at hand: the
\* request fails on the network; it is answered 401/403, 429 or another
\* non-2xx status; a level of candidates[0].content.parts[0].text is
\* absent; the text holds no braces, does not parse, or has no players array.
AuthQuota == {"auth", "quota"}
CheckedLevels == {"nocandidates", "nocandidate0", "nocontent"}
UncheckedLevels == {"noparts", "nopart0", "notext"}
AbsentLevels == CheckedLevels \cup UncheckedLevels
InferFailures ==
    {"neterr", "notok"} \cup AuthQuota \cup AbsentLevels
        \cup {"nobrace", "badjson", "noarray"}

\* The error an attempt ends with, index.ts:238-273 and 818-843: the
\* levels candidates, candidates[0] and content are tested, the deeper ones
\* are dereferenced.
ErrorOf(failure) ==
    CASE failure = "neterr" -> "fetch failed"
      [] failure \in AuthQuota \cup {"notok"} -> "service error"
      [] failure \in CheckedLevels -> "no valid candidate"
      [] failure \in UncheckedLevels -> "TypeError"
      [] failure = "nobrace" -> "no JSON"
      [] failure = "badjson" -> "SyntaxError"
      [] failure = "noarray" -> "no players array"
      [] failure = "noextract" -> "extraction failed"
      [] failure = "empty" -> "no players"

NoError == [cause |-> "none", error |-> "none"]
Error(failure) == [cause |-> failure, error |-> ErrorOf(failure)]

----------------------------------------------------------------------------
(* Detection function: analyzeVideoWithFilesAPI *)

\* index.ts:169
maxAttempts_detection == 3
\* index.ts:331  2000 * attempts
RetryBaseDelay == 2000 * TicksPerMs

Clamp(lo, hi, v) == Max(lo, Min(hi, v))

\* The default configuration returned when every attempt failed.
FallbackPlayers_detection ==
    << RawPlayer(Num(1), Num(30), Num(45), Undef, Undef, Num(80), Str(10), "home", FALSE),
       RawPlayer(Num(2), Num(70), Num(55), Undef, Undef, Num(80), Str(7), "away", FALSE),
       RawPlayer(Num(3), Num(50), Num(35), Undef, Undef, Num(70), Str(9), "home", FALSE),
       RawPlayer(Num(4), Num(80), Num(25), Undef, Undef, Num(70), Str(11), "away", FALSE) >>

\* analysisResult.players.map(...) of the detection function; index is 1-based
\* here, so JavaScript's index + 1 is index.
ProcessPlayer_detection(player, index) ==
    [id |-> IF Truthy(player.id) THEN player.id.v ELSE index,
     x |-> IF IsNumber(player.x) THEN Clamp(0, 100, player.x.v) ELSE 50,
     y |-> IF IsNumber(player.y) THEN Clamp(0, 100, player.y.v) ELSE 50,
     confidence |-> IF IsNumber(player.confidence)
                    THEN Clamp(0, 100, player.confidence.v) ELSE 80,
     jersey |-> IF Truthy(player.jersey) THEN player.jersey.v ELSE index,
     team |-> IF player.team # "" THEN player.team
              ELSE IF (index - 1) % 2 = 0 THEN "home" ELSE "away"]

processedPlayers_detection(ps) ==
    [i \in 1..Len(ps) |-> ProcessPlayer_detection(ps[i], i)]


----------------------------------------------------------------------------
(* Player-performance function: analyzePlayerPerformanceWithFilesAPI *)

\* index.ts:789
maxRetries == 3

\* Outcomes of one attempt.  A non-2xx answer, a level absent that the code
\* tests and a failed extraction leave the loop body with `continue`; a
\* network failure and a dereference of an absent level are thrown and caught.
PerformanceOutcomes ==
    {"neterr", "notok", "noextract", "ok"} \cup AuthQuota \cup AbsentLevels

ContinueOutcomes == {"notok", "noextract"} \cup AuthQuota \cup CheckedLevels

----------------------------------------------------------------------------
(* HTTP responses of the handlers *)

----------------------------------------------------------------------------
(* Text and JSON *)

\* A text is a sequence of one-character strings.
Space == {" ", "\n"}
Digit == {"0", "1", "2", "3", "4", "5", "6", "7", "8", "9"}
Letter == {"a", "b", "c", "j", "k", "n", "o", "s", "x", "y"}

\* The class \w of the regular expressions.
Word == Letter \cup Digit \cup {"_"}

DigitValue(c) ==
    CASE c = "0" -> 0 [] c = "1" -> 1 [] c = "2" -> 2 [] c = "3" -> 3
      [] c = "4" -> 4 [] c = "5" -> 5 [] c = "6" -> 6 [] c = "7" -> 7
      [] c = "8" -> 8 [] c = "9" -> 9

DigitChar(n) == CHOOSE c \in Digit : DigitValue(c) = n

\* JSON values: numbers, strings and objects (a sequence of <<key, value>>).
JNum(n) == [k |-> "num", n |-> n, s |-> <<>>, m |-> <<>>]
JStr(str) == [k |-> "str", n |-> 0, s |-> str, m |-> <<>>]
JObj(members) == [k |-> "obj", n |-> 0, s |-> <<>>, m |-> members]

Quoted(str) == <<"\"">> \o str \o <<"\"">>

\* JSON.stringify, for numbers 0..9, strings and objects.
RECURSIVE stringify(_)
RECURSIVE stringifyMembers(_, _)
stringifyMembers(m, i) ==
    IF i > Len(m) THEN <<>>
    ELSE (IF i > 1 THEN <<",">> ELSE <<>>)
         \o Quoted(m[i][1]) \o <<":">> \o stringify(m[i][2])
         \o stringifyMembers(m, i + 1)

stringify(v) ==
    CASE v.k = "num" -> <<DigitChar(v.n)>>
      [] v.k = "str" -> Quoted(v.s)
      [] v.k = "obj" -> <<"{">> \o stringifyMembers(v.m, 1) \o <<"}">>

RECURSIVE SkipSpace(_, _)
SkipSpace(t, i) ==
    IF i <= Len(t) /\ t[i] \in Space THEN SkipSpace(t, i + 1) ELSE i

\* The first index >= i of t holding a character of set C, or 0.
RECURSIVE IndexIn(_, _, _)
IndexIn(t, C, i) ==
    IF i > Len(t) THEN 0
    ELSE IF t[i] \in C THEN i
    ELSE IndexIn(t, C, i + 1)

\* The last index <= i of t holding a character of set C, or 0.
RECURSIVE LastIndexIn(_, _, _)
LastIndexIn(t, C, i) ==
    IF i < 1 THEN 0
    ELSE IF t[i] \in C THEN i
    ELSE LastIndexIn(t, C, i - 1)

indexOf(t, c) == IndexIn(t, {c}, 1)
lastIndexOf(t, c) == LastIndexIn(t, {c}, Len(t))

ParseFail == [ok |-> FALSE, val |-> JNum(0), next |-> 0]
Parsed(v, n) == [ok |-> TRUE, val |-> v, next |-> n]

\* A string literal at t[i] = '"': it ends at the next '"'; a raw line
\* break inside it is a syntax error.
ParseString(t, i) ==
    LET j == IndexIn(t, {"\""}, i + 1)
    IN IF j = 0 \/ \E q \in (i + 1)..(j - 1) : t[q] = "\n"
       THEN ParseFail
       ELSE Parsed(JStr(SubSeq(t, i + 1, j - 1)), j + 1)

RECURSIVE ParseDigits(_, _, _)
ParseDigits(t, i, acc) ==
    IF i <= Len(t) /\ t[i] \in Digit
    THEN ParseDigits(t, i + 1, 10 * acc + DigitValue(t[i]))
    ELSE Parsed(JNum(acc), i)

RECURSIVE ParseValue(_, _)
RECURSIVE ParseMembers(_, _, _)
ParseMembers(t, i0, acc) ==
    LET i == SkipSpace(t, i0)
    IN IF i > Len(t) \/ t[i] # "\"" THEN ParseFail
       ELSE LET key == ParseString(t, i)
            IN IF ~key.ok THEN ParseFail
               ELSE LET j == SkipSpace(t, key.next)
                    IN IF j > Len(t) \/ t[j] # ":" THEN ParseFail
                       ELSE LET v == ParseValue(t, j + 1)
                            IN IF ~v.ok THEN ParseFail
                               ELSE LET e == SkipSpace(t, v.next)
                                        all == Append(acc, <<key.val.s, v.val>>)
                                    IN IF e > Len(t) THEN ParseFail
                                       ELSE IF t[e] = "," THEN ParseMembers(t, e + 1, all)
                                       ELSE IF t[e] = "}" THEN Parsed(JObj(all), e + 1)
                                       ELSE ParseFail

ParseValue(t, i0) ==
    LET i == SkipSpace(t, i0)
    IN IF i > Len(t) THEN ParseFail
       ELSE IF t[i] = "\"" THEN ParseString(t, i)
       ELSE IF t[i] \in Digit THEN ParseDigits(t, i, 0)
       ELSE IF t[i] = "{"
       THEN LET j == SkipSpace(t, i + 1)
            IN IF j <= Len(t) /\ t[j] = "}" THEN Parsed(JObj(<<>>), j + 1)
               ELSE ParseMembers(t, i + 1, <<>>)
       ELSE ParseFail

\* JSON.parse: one value with nothing but white space around it.
JSONparse(t) ==
    LET r == ParseValue(t, 1)
    IN IF r.ok /\ SkipSpace(t, r.next) = Len(t) + 1
       THEN [ok |-> TRUE, value |-> r.val]
       ELSE [ok |-> FALSE, value |-> JNum(0)]

\* The extractor has not run.
NotExtracted == [ok |-> FALSE, value |-> JNum(0), method |-> 0]

\* No text has been made.
NotWrapped == [obj |-> JNum(0), prefix |-> <<>>, suffix |-> <<>>]

\* error names the message of the failure the handler reports ("none" when
\* it reports none); data names the payload of a success; json tells that
\* the body is a JSON object with a success property.
NoResponse ==
    [status |-> 0, success |-> FALSE, data |-> "none", error |-> "none",
     warning |-> FALSE,
     json |-> FALSE]

Success(data) ==
    [status |-> 200, success |-> TRUE, data |-> data, error |-> "none",
     warning |-> FALSE,
     json |-> TRUE]

\* The answer of the performance handler when the analysis failed,
\* index.ts:466-476: generated data with a warning.
SuccessWithWarning(data) ==
    [status |-> 200, success |-> TRUE, data |-> data, error |-> "none",
     warning |-> TRUE,
     json |-> TRUE]

\* As Failure, were the failure thrown out of the handler: no response.
Failure_escaped(status, error) == NoResponse

Failure(status, error) ==
    [status |-> status, success |-> FALSE, data |-> "none", error |-> error,
     warning |-> FALSE,
     json |-> TRUE]

\* The answer to a CORS preflight request: new Response('ok').
Preflight ==
    [status |-> 200, success |-> FALSE, data |-> "ok", error |-> "none",
     warning |-> FALSE,
     json |-> FALSE]

----------------------------------------------------------------------------
(* The server functions *)

Init ==
    /\ handler \in {"detection", "performance"}
    /\ pc = "request"
    /\ fileSize \in FileSizes
    /\ posts = 0
    /\ puts = <<>>
    /\ chunk = 0
    /\ checkInterval = 0
    /\ elapsed = 0
    /\ wait = 0
    /\ prevWait = 0
    /\ lastStatus = "none"
    /\ polls = FALSE
    /\ errs = 0
    /\ processing = 0
    /\ attempts = 0
    /\ inferCalls = 0
    /\ lastError = NoError
    /\ netErrors = 0
    /\ players = <<>>
    /\ result = <<>>
    /\ performanceData = "none"
    /\ deletes = 0
    /\ deleteOutcome = "none"
    /\ response = NoResponse
    /\ typeOk = TRUE
    /\ reply = <<>>
    /\ compressions = 0
    /\ serverCalls = 0
    /\ wrapped = NotWrapped
    /\ text = <<>>
    /\ extracted = NotExtracted
    /\ acks = <<>>
    /\ sampler = "none"
    /\ spc = "idle"
    /\ duration = 0
    /\ ratio = NoTime
    /\ numSamples = 0
    /\ samplePoints = <<>>
    /\ sampleIndex = 0
    /\ currentTime = NoTime
    /\ position = NoTime
    /\ seeks = 0
    /\ seeking = 0
    /\ seekedFor = 0
    /\ frames = <<>>
    /\ maxPlayerCount = 0
    /\ bestTimestamp = NoTime
    /\ settled = "pending"
    /\ returned = NoTime
    /\ fallbackData = NoData
    /\ PROD = FALSE
    /\ genAI = 0
    /\ model = 0
    /\ ipc = NotCalled
    /\ genAIInstance = NoInstance
    /\ constructed = 0
    /\ keyFetched = 0
    /\ got = NoInstance

\* The handler answers and the request is over.
Respond(r) ==
    /\ response' = r
    /\ pc' = "done"

\* uploadVideoToFilesAPI up to its first await: the initiation POST.
StartUpload ==
    /\ posts' = posts + 1
    /\ pc' = "metadata"

\* serve() of the detection function, index.ts:8-33.
ServeDetection(req) ==
    /\ pc = "request"
    /\ handler = "detection"
    /\ CASE req = "options" -> Respond(Preflight) /\ UNCHANGED posts
         [] req = "badform" -> Respond(Failure(500, "form")) /\ UNCHANGED posts
         [] req = "missing" -> Respond(Failure(400, "missing")) /\ UNCHANGED posts
         [] OTHER -> StartUpload /\ UNCHANGED response
    /\ UNCHANGED <<clientVars, extractorVars>>
    /\ UNCHANGED <<failureVars, processing, deleteOutcome>>
    /\ UNCHANGED <<handler, fileSize, puts, chunk, checkInterval, elapsed, wait,
                   prevWait, lastStatus, polls, errs, attempts, inferCalls,
                   players, result, performanceData, deletes>>
    /\ UNCHANGED acks
    /\ UNCHANGED samplerVars
    /\ UNCHANGED fallbackData
    /\ UNCHANGED initVars

\* serve() of the player-performance function, index.ts:379-434.
ServePerformance(req) ==
    /\ pc = "request"
    /\ handler = "performance"
    /\ CASE req = "options" -> Respond(Preflight) /\ UNCHANGED posts
         [] req = "badform" -> Respond(Failure(500, "form")) /\ UNCHANGED posts
         [] req = "missing" -> Respond(Failure(400, "missing")) /\ UNCHANGED posts
         [] OTHER ->
              IF fileSize > MAX_SIZE_MB * KiBPerMiB
              THEN Respond(Failure(413, "too large")) /\ UNCHANGED posts
              ELSE StartUpload /\ UNCHANGED response
    /\ UNCHANGED <<clientVars, extractorVars>>
    /\ UNCHANGED <<failureVars, processing, deleteOutcome>>
    /\ UNCHANGED <<handler, fileSize, puts, chunk, checkInterval, elapsed, wait,
                   prevWait, lastStatus, polls, errs, attempts, inferCalls,
                   players, result, performanceData, deletes>>
    /\ UNCHANGED acks
    /\ UNCHANGED samplerVars
    /\ UNCHANGED fallbackData
    /\ UNCHANGED initVars

\* The initiation POST is answered: index.ts:95-117 and 573-637.
MetadataResponse(outcome) ==
    /\ pc = "metadata"
    /\ IF outcome # "ok"
       THEN \* non-2xx, no X-Goog-Upload-URL header, or fetch threw
            /\ Respond(Failure(500, "metadata"))
            /\ UNCHANGED <<puts, chunk>>
       ELSE /\ pc' = "put"
            /\ chunk' = 0
            /\ puts' = IF handler = "detection" \/ fileSize <= MAX_CHUNK_SIZE
                       THEN <<WholePut(fileSize)>>
                       ELSE <<ChunkPut(0, fileSize)>>
            /\ UNCHANGED response
    /\ UNCHANGED <<clientVars, extractorVars>>
    /\ UNCHANGED <<failureVars, processing, deleteOutcome>>
    /\ UNCHANGED <<handler, fileSize, posts, checkInterval, elapsed, wait,
                   prevWait, lastStatus, polls, errs, attempts, inferCalls,
                   players, result, performanceData, deletes>>
    /\ UNCHANGED acks
    /\ UNCHANGED samplerVars
    /\ UNCHANGED fallbackData
    /\ UNCHANGED initVars

\* Whether the PUT in flight carries the finalize command.
Finalizing ==
    \/ handler = "detection"
    \/ fileSize <= MAX_CHUNK_SIZE
    \/ isLastChunk(chunk, fileSize)

\* As responseOk, were the answer of a PUT not looked at.
responseOk_unchecked(outcome) == TRUE

\* uploadResponse.ok / chunkResponse.ok, index.ts:119, 599 and 639; a fetch
\* that throws leaves the function the same way.
responseOk(outcome) == outcome = "ok"

\* A PUT is answered: index.ts:119-129 and 599-652.  After the finalizing
\* PUT waitForFileProcessing starts and issues its first status GET.
PutResponse(outcome) ==
    /\ pc = "put"
    /\ acks' = Append(acks, outcome)
    /\ IF ~responseOk(outcome)
       THEN /\ Respond(Failure(500, "put"))
            /\ UNCHANGED <<puts, chunk, checkInterval, elapsed, polls>>
       ELSE IF Finalizing
       THEN /\ elapsed' = 0
            /\ checkInterval' = IF handler = "performance"
                                THEN InitialCheckInterval ELSE FixedCheckInterval
            /\ polls' = TRUE
            /\ pc' = "status"
            /\ UNCHANGED <<puts, chunk, response>>
       ELSE /\ chunk' = chunk + 1
            /\ puts' = Append(puts, ChunkPut(chunk + 1, fileSize))
            /\ pc' = "put"
            /\ UNCHANGED <<checkInterval, elapsed, polls, response>>
    /\ UNCHANGED <<clientVars, extractorVars>>
    /\ UNCHANGED <<failureVars, processing, deleteOutcome>>
    /\ UNCHANGED <<handler, fileSize, posts, wait, prevWait, lastStatus, errs,
                   attempts, inferCalls, players, result, performanceData, deletes>>
    /\ UNCHANGED samplerVars
    /\ UNCHANGED fallbackData
    /\ UNCHANGED initVars

\* waitForFileProcessing returns: its locals (startTime, checkInterval, the
\* timers) are gone.
PollerReturns ==
    /\ elapsed' = 0
    /\ checkInterval' = 0
    /\ wait' = 0
    /\ prevWait' = 0
    /\ errs' = 0

\* The inference step starts: the first generateContent POST.
StartInference ==
    /\ attempts' = 1
    /\ inferCalls' = inferCalls + 1
    /\ pc' = "infer"

\* As ACTIVE, were a file that is still processing taken as ready.
ACTIVE_orProcessing(state) == state \in {"ACTIVE", "PROCESSING"}

\* fileStatus.state === 'ACTIVE', index.ts:149 and 674.
ACTIVE(state) == state = "ACTIVE"

\* A status GET of the performance function's poller is answered after
\* d ticks: index.ts:663-689.  Whatever is thrown inside the try block,
\* the FAILED error included, lands in the catch block.
StatusResponse(outcome, d) ==
    /\ pc = "status"
    /\ handler = "performance"
    /\ outcome \in StatusErrors => errs < MaxStatusErrors
    /\ lastStatus' = outcome
    /\ processing' = IF outcome \in StatusOutcomes \ (StatusErrors \cup {"ACTIVE"})
                     THEN Min(processing + 1, MaxProcessing) ELSE processing
    /\ IF ACTIVE(outcome)
       THEN PollerReturns /\ StartInference
       ELSE /\ errs' = IF outcome \in StatusErrors THEN errs + 1 ELSE errs
            /\ elapsed' = elapsed + d
            /\ wait' = checkInterval
            /\ pc' = "sleep"
            /\ UNCHANGED <<attempts, inferCalls, checkInterval, prevWait>>
    /\ UNCHANGED <<clientVars, extractorVars>>
    /\ UNCHANGED <<failureVars, deleteOutcome>>
    /\ UNCHANGED <<handler, fileSize, posts, puts, chunk, polls, players,
                   result, performanceData, deletes, response>>
    /\ UNCHANGED acks
    /\ UNCHANGED samplerVars
    /\ UNCHANGED fallbackData
    /\ UNCHANGED initVars

\* A status GET of the detection function's poller is answered:
\* index.ts:139-158.  Nothing is caught here.
StatusResponse_detection(outcome, d) ==
    /\ pc = "status"
    /\ handler = "detection"
    /\ lastStatus' = outcome
    /\ processing' = IF outcome \in StatusOutcomes \ (StatusErrors \cup {"ACTIVE"})
                     THEN Min(processing + 1, MaxProcessing) ELSE processing
    /\ CASE ACTIVE(outcome) -> PollerReturns /\ StartInference /\ UNCHANGED response
         [] outcome \in StatusErrors ->
              /\ Respond(Failure(500, IF outcome = "FAILED" THEN "failed" ELSE "status"))
              /\ elapsed' = elapsed + d
              /\ UNCHANGED <<wait, attempts, inferCalls, checkInterval, prevWait, errs>>
         [] OTHER ->
              /\ elapsed' = elapsed + d
              /\ wait' = FixedCheckInterval
              /\ pc' = "sleep"
              /\ UNCHANGED <<attempts, inferCalls, response, checkInterval, prevWait, errs>>
    /\ UNCHANGED <<clientVars, extractorVars>>
    /\ UNCHANGED <<failureVars, deleteOutcome>>
    /\ UNCHANGED <<handler, fileSize, posts, puts, chunk, polls, players,
                   result, performanceData, deletes>>
    /\ UNCHANGED acks
    /\ UNCHANGED samplerVars
    /\ UNCHANGED fallbackData
    /\ UNCHANGED initVars

\* As withinMaxWait, were the loop to go on whatever time has passed.
withinMaxWait_always(e, h) == TRUE

\* The loop condition  Date.now() - startTime < maxWaitTime, index.ts:139
\* and 663.
withinMaxWait(e, h) == e < MaxWaitOf(h)

\* The poller's setTimeout fires, the interval is updated and the loop
\* condition is evaluated: index.ts:682-683, 688, 663 and 157, 139.
PollTimer ==
    /\ pc = "sleep"
    /\ elapsed' = elapsed + wait
    /\ prevWait' = wait
    /\ checkInterval' =
         IF handler = "performance" /\ lastStatus \notin StatusErrors
         THEN NextCheckInterval(checkInterval) ELSE checkInterval
    /\ IF withinMaxWait(elapsed', handler)
       THEN pc' = "status" /\ UNCHANGED response
       ELSE Respond(Failure(500, "timeout"))
    /\ UNCHANGED <<clientVars, extractorVars>>
    /\ UNCHANGED <<failureVars, processing, deleteOutcome>>
    /\ UNCHANGED <<handler, fileSize, posts, puts, chunk, wait, lastStatus,
                   polls, errs, attempts, inferCalls, players, result, performanceData, deletes>>
    /\ UNCHANGED acks
    /\ UNCHANGED samplerVars
    /\ UNCHANGED fallbackData
    /\ UNCHANGED initVars


\* The inference step is over; the handler issues the DELETE.
StartDelete ==
    /\ deletes' = deletes + 1
    /\ pc' = "delete"

\* One attempt of analyzeVideoWithFilesAPI ends: index.ts:171-352.  Every
\* failure is thrown into the one catch block; the last failed attempt
\* substitutes the default configuration.  The loop is left with a players
\* array, which is mapped and returned to the handler.
DetectionAttempt(failure, arr) ==
    /\ pc = "infer"
    /\ handler = "detection"
    /\ netErrors' = IF failure = "neterr" THEN netErrors + 1 ELSE netErrors
    /\ IF failure = "none" /\ Len(arr) > 0
       THEN /\ players' = arr
            /\ result' = processedPlayers_detection(arr)
            /\ StartDelete
            /\ UNCHANGED <<wait, lastError>>
       ELSE IF attempts = maxAttempts_detection
       THEN /\ players' = FallbackPlayers_detection
            /\ result' = processedPlayers_detection(FallbackPlayers_detection)
            /\ StartDelete
            /\ UNCHANGED <<wait, lastError>>
       ELSE /\ lastError' = Error(IF failure = "none" THEN "empty" ELSE failure)
            /\ wait' = RetryBaseDelay * attempts
            /\ pc' = "backoff"
            /\ UNCHANGED <<players, result, deletes>>
    /\ UNCHANGED <<clientVars, extractorVars>>
    /\ UNCHANGED <<processing, deleteOutcome>>
    /\ UNCHANGED <<handler, fileSize, posts, puts, chunk, checkInterval, elapsed,
                   prevWait, lastStatus, polls, errs, attempts, inferCalls,
                   performanceData, response>>
    /\ UNCHANGED acks
    /\ UNCHANGED samplerVars
    /\ UNCHANGED fallbackData
    /\ UNCHANGED initVars

\* One attempt of analyzePlayerPerformanceWithFilesAPI ends:
\* index.ts:792-889.  `continue` starts the next attempt at once; a thrown
\* error waits 2000 * attempt first, unless the attempt was the last.  When
\* the loop runs out the last error is thrown to the handler, which deletes
\* the file and answers with generated data.
PerformanceAttempt(outcome) ==
    /\ pc = "infer"
    /\ handler = "performance"
    /\ netErrors' = IF outcome = "neterr" THEN netErrors + 1 ELSE netErrors
    /\ lastError' = IF outcome = "ok" THEN lastError ELSE Error(outcome)
    /\ CASE outcome = "ok" ->
              /\ performanceData' = "validated"
              /\ StartDelete
              /\ UNCHANGED <<attempts, inferCalls, wait>>
         [] attempts = maxRetries /\ outcome # "ok" ->
              /\ performanceData' = "fallback"
              /\ StartDelete
              /\ UNCHANGED <<attempts, inferCalls, wait>>
         [] attempts < maxRetries /\ outcome \in ContinueOutcomes ->
              /\ attempts' = attempts + 1
              /\ inferCalls' = inferCalls + 1
              /\ UNCHANGED <<pc, performanceData, deletes, wait>>
         [] OTHER ->
              /\ wait' = RetryBaseDelay * attempts
              /\ pc' = "backoff"
              /\ UNCHANGED <<attempts, inferCalls, performanceData, deletes>>
    /\ UNCHANGED <<clientVars, extractorVars>>
    /\ UNCHANGED <<processing, deleteOutcome>>
    /\ UNCHANGED <<handler, fileSize, posts, puts, chunk, checkInterval, elapsed,
                   prevWait, lastStatus, polls, errs, players, result, response>>
    /\ UNCHANGED acks
    /\ UNCHANGED samplerVars
    /\ UNCHANGED fallbackData
    /\ UNCHANGED initVars

\* The retry delay is over and the next attempt issues its POST.  The
\* detection loops leave their catch block, and attemptError with it; the
\* performance loop keeps its lastError.
RetryTimer ==
    /\ pc = "backoff"
    /\ attempts' = attempts + 1
    /\ inferCalls' = inferCalls + 1
    /\ pc' = "infer"
    /\ lastError' = IF handler = "performance" THEN lastError ELSE NoError
    /\ UNCHANGED <<clientVars, extractorVars>>
    /\ UNCHANGED <<netErrors, processing, deleteOutcome>>
    /\ UNCHANGED <<handler, fileSize, posts, puts, chunk, checkInterval, elapsed,
                   wait, prevWait, lastStatus, polls, errs, players, result, performanceData,
                   deletes, response>>
    /\ UNCHANGED acks
    /\ UNCHANGED samplerVars
    /\ UNCHANGED fallbackData
    /\ UNCHANGED initVars

\* As AfterCleanup, were the call of deleteFileFromFilesAPI outside a try
\* block: what it throws reaches the handler's outer catch.
AfterCleanup_uncaught(ended, answer) ==
    IF ended = "thrown" THEN Failure(500, "delete") ELSE answer

\* deleteFileFromFilesAPI, index.ts:363-371 and 893-905: a non-2xx answer is
\* logged by both; a fetch that throws is caught by the second only.
deleteFileFromFilesAPI(h, outcome) ==
    IF h = "detection" /\ outcome = "neterr" THEN "thrown" ELSE "returned"

\* try { await deleteFileFromFilesAPI(...) } catch (cleanupError) { warn },
\* index.ts:40-45, 454-458 and 477-482: the handler goes on to its answer.
AfterCleanup(ended, answer) == answer

\* The answer the handler gives once the cleanup is over, index.ts:47-56,
\* 463-476 and 484-492.
Answer ==
    CASE handler = "detection" -> Success("players")
      [] performanceData = "fallback" -> SuccessWithWarning(performanceData)
      [] OTHER -> Success(performanceData)

\* Largest value drawn for Math.floor(Math.random() * 20) and for
\* Math.floor(Math.random() * 10); it stands for 19 and 9.
MaxDraw == 1

\* generateFallbackPerformanceData, index.ts:523-543, with the values r1 and
\* r2 of its first two draws; the other fields are drawn likewise.
generateFallbackPerformanceData(r1, r2) ==
    LET baseScore == 70 + r1
    IN [overall |-> baseScore, speed |-> baseScore + r2 - 5]

\* The DELETE is answered or throws; the handler that caught the failure of
\* the analysis then generates the data it answers with, index.ts:456-477.
DeleteResponse(outcome) ==
    /\ pc = "delete"
    /\ deleteOutcome' = outcome
    /\ \E r1, r2 \in 0..MaxDraw :
          fallbackData' = IF performanceData = "fallback"
                          THEN generateFallbackPerformanceData(r1, r2)
                          ELSE fallbackData
    /\ Respond(AfterCleanup(deleteFileFromFilesAPI(handler, outcome), Answer))
    /\ UNCHANGED <<clientVars, extractorVars>>
    /\ UNCHANGED <<failureVars, processing>>
    /\ UNCHANGED <<handler, fileSize, posts, puts, chunk, checkInterval, elapsed,
                   wait, prevWait, lastStatus, polls, errs, attempts, inferCalls,
                   players, result, performanceData, deletes>>
    /\ UNCHANGED acks
    /\ UNCHANGED samplerVars
    /\ UNCHANGED initVars

Next ==
    \/ \E req \in Requests : ServeDetection(req)
    \/ \E req \in Requests : ServePerformance(req)
    \/ \E outcome \in {"ok", "notok", "nourl", "neterr"} : MetadataResponse(outcome)
    \/ \E outcome \in {"ok", "notok", "neterr"} : PutResponse(outcome)
    \/ \E outcome \in StatusOutcomes : \E d \in FetchLatency(outcome) :
          StatusResponse(outcome, d)
    \/ \E outcome \in StatusOutcomes : \E d \in FetchLatency(outcome) :
          StatusResponse_detection(outcome, d)
    \/ PollTimer
    \/ \E failure \in InferFailures : DetectionAttempt(failure, <<>>)
    \/ \E arr \in RawArrays : DetectionAttempt("none", arr)
    \/ \E outcome \in PerformanceOutcomes : PerformanceAttempt(outcome)
    \/ RetryTimer
    \/ \E outcome \in {"ok", "notok", "neterr"} : DeleteResponse(outcome)

Spec == Init /\ [][Next]_vars

\* A request up to the end of waitForFileProcessing.
NextPoller ==
    \/ \E req \in Requests : ServeDetection(req)
    \/ \E req \in Requests : ServePerformance(req)
    \/ \E outcome \in {"ok", "notok", "nourl", "neterr"} : MetadataResponse(outcome)
    \/ \E outcome \in {"ok", "notok", "neterr"} : PutResponse(outcome)
    \/ \E outcome \in StatusOutcomes : \E d \in FetchLatency(outcome) :
          StatusResponse(outcome, d)
    \/ \E outcome \in StatusOutcomes : \E d \in FetchLatency(outcome) :
          StatusResponse_detection(outcome, d)
    \/ PollTimer

\* Every status request is answered or fails, and every timer fires.
SpecPoller ==
    /\ Init
    /\ [][NextPoller]_vars
    /\ WF_vars(\E outcome \in StatusOutcomes : \E d \in FetchLatency(outcome) :
                  StatusResponse(outcome, d))
    /\ WF_vars(\E outcome \in StatusOutcomes : \E d \in FetchLatency(outcome) :
                  StatusResponse_detection(outcome, d))
    /\ WF_vars(PollTimer)


----------------------------------------------------------------------------
(* Client service: FootballAI in src/services/geminiAI.ts *)

\* geminiAI.ts:87   RECOMMENDED_SIZE = 200 * 1024 * 1024
RECOMMENDED_SIZE == 200 * KiBPerMiB
\* geminiAI.ts:311
maxAttempts == 5
\* geminiAI.ts:729
maxAttempts_server == 2
\* the base 10000 of setTimeout(resolve, 10000 * attempts)
ServerRetryBaseDelay == 10000 * TicksPerMs

\* The value of a field where a number is expected, with the default the
\* code substitutes:  typeof f === 'number' ? f : dflt
NumberOr(f, dflt) == IF IsNumber(f) THEN f.v ELSE dflt

\* As lastAttempt, were the catch block never to find the attempts used up.
lastAttempt_never(n, max) == FALSE

\* attempts === maxAttempts in the catch block of a retry loop,
\* geminiAI.ts:381, part_007:383 and 778.
lastAttempt(n, max) == n = max

\* The callback of analysisResult.players.filter(...), geminiAI.ts:346-366.
validPlayer(player) ==
    LET x == NumberOr(player.x, 0)
        y == NumberOr(player.y, 0)
        width == NumberOr(player.width, 0)
        height == NumberOr(player.height, 0)
        confidence == NumberOr(player.confidence, 0)
    IN /\ ~player.isReferee
       /\ ~(width < 2 \/ width > 20 \/ height < 6 \/ height > 30)
       /\ ~(x < 0 \/ x > 98 \/ y < 0 \/ y > 98)
       /\ ~(x + width > 100 \/ y + height > 100)
       /\ ~(confidence < 60)

validPlayers(arr) == SelectSeq(arr, validPlayer)

\* As FallbackPlayers, were the last failed attempt to substitute no players.
FallbackPlayers_none == <<>>

\* The default configuration of the static-frame analysis, geminiAI.ts:384-466.
FallbackPlayers ==
    << RawPlayer(Num(1), Num(15), Num(20), Num(8), Num(20), Num(88), Str(10), "home", FALSE),
       RawPlayer(Num(2), Num(70), Num(30), Num(7), Num(18), Num(85), Str(7), "away", FALSE),
       RawPlayer(Num(3), Num(40), Num(15), Num(8), Num(22), Num(82), Str(9), "home", FALSE),
       RawPlayer(Num(4), Num(60), Num(50), Num(7), Num(19), Num(80), Str(11), "away", FALSE),
       RawPlayer(Num(5), Num(25), Num(65), Num(8), Num(21), Num(78), Str(8), "home", FALSE),
       RawPlayer(Num(6), Num(80), Num(10), Num(7), Num(17), Num(83), Str(3), "away", FALSE) >>

\* The callback of analysisResult.players.map(...), geminiAI.ts:476-494;
\* index is 1-based here, so JavaScript's index + 1 is index.
ProcessPlayer(player, index) ==
    [id |-> IF Truthy(player.id) THEN player.id.v ELSE index,
     x |-> Clamp(0, 98, NumberOr(player.x, 50)),
     y |-> Clamp(0, 98, NumberOr(player.y, 50)),
     width |-> Clamp(4, 18, NumberOr(player.width, 8)),
     height |-> Clamp(8, 28, NumberOr(player.height, 18)),
     confidence |-> Clamp(60, 100, NumberOr(player.confidence, 80)),
     jersey |-> IF Truthy(player.jersey) THEN player.jersey.v ELSE index,
     team |-> IF player.team # "" THEN player.team
              ELSE IF (index - 1) % 2 = 0 THEN "home" ELSE "away",
     isReferee |-> FALSE]

processedPlayers(ps) == [i \in 1..Len(ps) |-> ProcessPlayer(ps[i], i)]

\* The older version of the client service kept in src/unnamed/part_007:
\* uploadAndAnalyzeVideo extracts the frame with the most players and
\* analyzeFrameForPlayers detects the players in it.

\* part_007:318
maxAttempts_frame == 4
\* part_007:473  setTimeout(resolve, 1500 * attempts)
FrameRetryBaseDelay == 1500 * TicksPerMs

\* The callback of analysisResult.players.filter(...), part_007:353-368.
filteredPlayer(player) ==
    LET x == NumberOr(player.x, 0)
        y == NumberOr(player.y, 0)
        width == NumberOr(player.width, 0)
        height == NumberOr(player.height, 0)
    IN /\ ~player.isReferee
       /\ ~(width < 3 \/ width > 25 \/ height < 8 \/ height > 35)
       /\ ~(x < 0 \/ x > 95 \/ y < 0 \/ y > 95)

filteredPlayers(arr) == SelectSeq(arr, filteredPlayer)

\* The default configuration of analyzeFrameForPlayers, part_007:386-468.
FallbackPlayers_frame ==
    << RawPlayer(Num(1), Num(20), Num(25), Num(7), Num(16), Num(85), Str(10), "home", FALSE),
       RawPlayer(Num(2), Num(75), Num(35), Num(6), Num(15), Num(82), Str(7), "away", FALSE),
       RawPlayer(Num(3), Num(45), Num(20), Num(7), Num(17), Num(78), Str(9), "home", FALSE),
       RawPlayer(Num(4), Num(65), Num(55), Num(6), Num(14), Num(80), Str(11), "away", FALSE),
       RawPlayer(Num(5), Num(30), Num(60), Num(7), Num(16), Num(76), Str(8), "home", FALSE),
       RawPlayer(Num(6), Num(85), Num(15), Num(6), Num(15), Num(79), Str(3), "away", FALSE) >>

\* The callback of analysisResult.players.map(...), part_007:478-497.
ProcessPlayer_frame(player, index) ==
    [id |-> IF Truthy(player.id) THEN player.id.v ELSE index,
     x |-> Clamp(0, 95, NumberOr(player.x, 50)),
     y |-> Clamp(0, 95, NumberOr(player.y, 50)),
     width |-> Clamp(4, 20, NumberOr(player.width, 7)),
     height |-> Clamp(10, 30, NumberOr(player.height, 16)),
     confidence |-> Clamp(50, 100, NumberOr(player.confidence, 80)),
     jersey |-> IF Truthy(player.jersey) THEN player.jersey.v ELSE index,
     team |-> IF player.team # "" THEN player.team
              ELSE IF (index - 1) % 2 = 0 THEN "home" ELSE "away",
     isReferee |-> FALSE]

processedPlayers_frame(ps) ==
    [i \in 1..Len(ps) |-> ProcessPlayer_frame(ps[i], i)]

\* What a client method threw.
Thrown(error) ==
    [status |-> 0, success |-> FALSE, data |-> "none", error |-> error,
     warning |-> FALSE,
     json |-> FALSE]

InitClient ==
    /\ handler \in {"uploadAndAnalyzeVideo", "analyzeFrameForPlayers",
                    "analyzePlayerPerformance"}
    /\ pc = "call"
    /\ fileSize \in FileSizes
    /\ typeOk \in BOOLEAN
    /\ posts = 0
    /\ puts = <<>>
    /\ chunk = 0
    /\ checkInterval = 0
    /\ elapsed = 0
    /\ wait = 0
    /\ prevWait = 0
    /\ lastStatus = "none"
    /\ polls = FALSE
    /\ errs = 0
    /\ processing = 0
    /\ attempts = 0
    /\ inferCalls = 0
    /\ lastError = NoError
    /\ netErrors = 0
    /\ players = <<>>
    /\ result = <<>>
    /\ performanceData = "none"
    /\ deletes = 0
    /\ deleteOutcome = "none"
    /\ response = NoResponse
    /\ reply = <<>>
    /\ compressions = 0
    /\ serverCalls = 0
    /\ wrapped = NotWrapped
    /\ text = <<>>
    /\ extracted = NotExtracted
    /\ acks = <<>>
    /\ sampler = "none"
    /\ spc = "idle"
    /\ duration = 0
    /\ ratio = NoTime
    /\ numSamples = 0
    /\ samplePoints = <<>>
    /\ sampleIndex = 0
    /\ currentTime = NoTime
    /\ position = NoTime
    /\ seeks = 0
    /\ seeking = 0
    /\ seekedFor = 0
    /\ frames = <<>>
    /\ maxPlayerCount = 0
    /\ bestTimestamp = NoTime
    /\ settled = "pending"
    /\ returned = NoTime
    /\ fallbackData = NoData
    /\ PROD = FALSE
    /\ genAI = 0
    /\ model = 0
    /\ ipc = NotCalled
    /\ genAIInstance = NoInstance
    /\ constructed = 0
    /\ keyFetched = 0
    /\ got = NoInstance

unusedByClient == <<posts, puts, chunk, checkInterval, elapsed, prevWait,
                    lastStatus, polls, errs, processing, deletes,
                    deleteOutcome, wrapped, text, extracted>>

\* uploadAndAnalyzeVideo up to its first await, geminiAI.ts:117-139: the
\* checks of type and size, then the frame extraction starts.
UploadAndAnalyzeVideo ==
    /\ pc = "call"
    /\ handler = "uploadAndAnalyzeVideo"
    /\ CASE ~typeOk -> Respond(Thrown("format"))
         [] fileSize = 0 -> Respond(Thrown("empty"))
         [] fileSize > MAX_FILE_SIZE -> Respond(Thrown("too large"))
         [] OTHER -> pc' = "frame" /\ UNCHANGED response
    /\ UNCHANGED <<handler, fileSize, typeOk, wait, attempts, inferCalls, players,
                   result, performanceData, reply, compressions, serverCalls>>
    /\ UNCHANGED unusedByClient
    /\ UNCHANGED failureVars
    /\ UNCHANGED acks
    /\ UNCHANGED samplerVars
    /\ UNCHANGED fallbackData
    /\ UNCHANGED initVars

\* extractFrameAtTimestamp settles, geminiAI.ts:179-243; on success
\* analyzeStaticFrameForPlayers starts and awaits ensureModelInitialized.
FrameExtracted(ok) ==
    /\ pc = "frame"
    /\ handler = "uploadAndAnalyzeVideo"
    /\ IF ok THEN pc' = "init" /\ UNCHANGED response
       ELSE Respond(Thrown("frame"))
    /\ UNCHANGED <<handler, fileSize, typeOk, wait, attempts, inferCalls, players,
                   result, performanceData, reply, compressions, serverCalls>>
    /\ UNCHANGED unusedByClient
    /\ UNCHANGED failureVars
    /\ UNCHANGED acks
    /\ UNCHANGED samplerVars
    /\ UNCHANGED fallbackData
    /\ UNCHANGED initVars

\* Ways an attempt of the client fails before a players array is at hand:
\* generateContent throws (network, key, quota, other), response.text()
\* throws, the text holds no braces, does not parse, or has no players array.
ClientFailures ==
    {"neterr", "notok", "notext", "nobrace", "badjson", "noarray"} \cup AuthQuota

\* ensureModelInitialized settles, geminiAI.ts:251, 91-97; a failure is
\* rethrown by the outer catch of analyzeStaticFrameForPlayers.  On success
\* the first attempt calls generateContent.
ModelInitialized(ok) ==
    /\ pc = "init"
    /\ IF ok THEN StartInference /\ UNCHANGED response
       ELSE Respond(Thrown("detection")) /\ UNCHANGED <<attempts, inferCalls>>
    /\ UNCHANGED <<handler, fileSize, typeOk, wait, players,
                   result, performanceData, reply, compressions, serverCalls>>
    /\ UNCHANGED unusedByClient
    /\ UNCHANGED failureVars
    /\ UNCHANGED acks
    /\ UNCHANGED samplerVars
    /\ UNCHANGED fallbackData
    /\ UNCHANGED initVars

\* One attempt of analyzeStaticFrameForPlayers ends, geminiAI.ts:313-497.
\* A reply with a players array is filtered; a non-empty rest leaves the
\* loop.  Every failure is thrown into the one catch block; the last failed
\* attempt substitutes the default configuration.  The array the loop is
\* left with is mapped and returned, and uploadAndAnalyzeVideo returns it.
StaticFrameAttempt(failure, arr) ==
    /\ pc = "infer"
    /\ handler = "uploadAndAnalyzeVideo"
    /\ reply' = IF failure = "none" THEN arr ELSE <<>>
    /\ netErrors' = IF failure = "neterr" THEN netErrors + 1 ELSE netErrors
    /\ LET kept == IF failure = "none" THEN validPlayers(arr) ELSE <<>>
       IN IF failure = "none" /\ Len(kept) > 0
          THEN /\ players' = kept
               /\ result' = processedPlayers(kept)
               /\ Respond(Success("players"))
               /\ UNCHANGED <<wait, lastError>>
          ELSE IF lastAttempt(attempts, maxAttempts)
          THEN /\ players' = FallbackPlayers
               /\ result' = processedPlayers(FallbackPlayers)
               /\ Respond(Success("players"))
               /\ UNCHANGED <<wait, lastError>>
          ELSE /\ lastError' = Error(IF failure = "none" THEN "empty" ELSE failure)
               /\ players' = IF failure \in {"none", "noarray"} THEN <<>> ELSE players
               /\ wait' = RetryBaseDelay * attempts
               /\ pc' = "backoff"
               /\ UNCHANGED <<result, response>>
    /\ UNCHANGED <<handler, fileSize, typeOk, attempts, inferCalls,
                   performanceData, compressions, serverCalls>>
    /\ UNCHANGED unusedByClient
    /\ UNCHANGED acks
    /\ UNCHANGED samplerVars
    /\ UNCHANGED fallbackData
    /\ UNCHANGED initVars

\* uploadAndAnalyzeVideo of the older version up to its first await,
\* part_007:200-222: the same checks, then extractBestFrameFromVideo starts.
UploadAndAnalyzeVideo_bestFrame ==
    /\ pc = "call"
    /\ handler = "analyzeFrameForPlayers"
    /\ CASE ~typeOk -> Respond(Thrown("format"))
         [] fileSize = 0 -> Respond(Thrown("empty"))
         [] fileSize > MAX_FILE_SIZE -> Respond(Thrown("too large"))
         [] OTHER -> pc' = "frame" /\ UNCHANGED response
    /\ UNCHANGED <<handler, fileSize, typeOk, wait, attempts, inferCalls, players,
                   result, performanceData, reply, compressions, serverCalls>>
    /\ UNCHANGED unusedByClient
    /\ UNCHANGED failureVars
    /\ UNCHANGED acks
    /\ UNCHANGED samplerVars
    /\ UNCHANGED fallbackData
    /\ UNCHANGED initVars

\* extractBestFrameFromVideo settles, part_007:57-162, 222-226; on success
\* analyzeFrameForPlayers starts and its first attempt calls
\* this.model.generateContent: the model is a field initializer here.
BestFrameExtracted(ok) ==
    /\ pc = "frame"
    /\ handler = "analyzeFrameForPlayers"
    /\ IF ok THEN StartInference /\ UNCHANGED response
       ELSE Respond(Thrown("frame")) /\ UNCHANGED <<attempts, inferCalls>>
    /\ UNCHANGED <<handler, fileSize, typeOk, wait, players,
                   result, performanceData, reply, compressions, serverCalls>>
    /\ UNCHANGED unusedByClient
    /\ UNCHANGED failureVars
    /\ UNCHANGED acks
    /\ UNCHANGED samplerVars
    /\ UNCHANGED fallbackData
    /\ UNCHANGED initVars

\* One attempt of analyzeFrameForPlayers ends, part_007:320-500: as
\* StaticFrameAttempt, with this version's filter, number of attempts,
\* delay, default configuration and map.
FrameAttempt(failure, arr) ==
    /\ pc = "infer"
    /\ handler = "analyzeFrameForPlayers"
    /\ reply' = IF failure = "none" THEN arr ELSE <<>>
    /\ netErrors' = IF failure = "neterr" THEN netErrors + 1 ELSE netErrors
    /\ LET kept == IF failure = "none" THEN filteredPlayers(arr) ELSE <<>>
       IN IF failure = "none" /\ Len(kept) > 0
          THEN /\ players' = kept
               /\ result' = processedPlayers_frame(kept)
               /\ Respond(Success("players"))
               /\ UNCHANGED <<wait, lastError>>
          ELSE IF lastAttempt(attempts, maxAttempts_frame)
          THEN /\ players' = FallbackPlayers_frame
               /\ result' = processedPlayers_frame(FallbackPlayers_frame)
               /\ Respond(Success("players"))
               /\ UNCHANGED <<wait, lastError>>
          ELSE /\ lastError' = Error(IF failure = "none" THEN "empty" ELSE failure)
               /\ players' = IF failure \in {"none", "noarray"} THEN <<>> ELSE players
               /\ wait' = FrameRetryBaseDelay * attempts
               /\ pc' = "backoff"
               /\ UNCHANGED <<result, response>>
    /\ UNCHANGED <<handler, fileSize, typeOk, attempts, inferCalls,
                   performanceData, compressions, serverCalls>>
    /\ UNCHANGED unusedByClient
    /\ UNCHANGED acks
    /\ UNCHANGED samplerVars
    /\ UNCHANGED fallbackData
    /\ UNCHANGED initVars

\* The request to the performance function is sent,
\* geminiAI.ts:699-747.
StartServerCall ==
    /\ attempts' = 1
    /\ serverCalls' = serverCalls + 1
    /\ pc' = "server"

\* analyzePlayerPerformance up to its first await, geminiAI.ts:635-670: the
\* checks, then compression of a file above the recommended size, else the
\* request to the server.
AnalyzePlayerPerformance(nameOk, configured, keyOk) ==
    /\ pc = "call"
    /\ handler = "analyzePlayerPerformance"
    /\ CASE fileSize = 0 -> Respond(Thrown("empty")) /\ UNCHANGED <<compressions, attempts, serverCalls>>
         [] ~nameOk -> Respond(Thrown("name")) /\ UNCHANGED <<compressions, attempts, serverCalls>>
         [] fileSize > MAX_FILE_SIZE ->
              Respond(Thrown("too large")) /\ UNCHANGED <<compressions, attempts, serverCalls>>
         [] fileSize > RECOMMENDED_SIZE ->
              /\ compressions' = compressions + 1
              /\ pc' = "compress"
              /\ UNCHANGED <<response, attempts, serverCalls>>
         [] ~configured ->
              Respond(Thrown("not configured")) /\ UNCHANGED <<compressions, attempts, serverCalls>>
         [] ~keyOk ->
              Respond(Thrown("API key")) /\ UNCHANGED <<compressions, attempts, serverCalls>>
         [] OTHER -> StartServerCall /\ UNCHANGED <<response, compressions>>
    /\ UNCHANGED <<handler, fileSize, typeOk, wait, inferCalls, players,
                   result, performanceData, reply>>
    /\ UNCHANGED unusedByClient
    /\ UNCHANGED failureVars
    /\ UNCHANGED acks
    /\ UNCHANGED samplerVars
    /\ UNCHANGED fallbackData
    /\ UNCHANGED initVars

\* compressVideo settles, geminiAI.ts:618-629: the compressed file of
\* newSize replaces the original, or compression failed and the original,
\* which is within MAX_FILE_SIZE, is sent.
CompressionDone(ok, newSize, configured, keyOk) ==
    /\ pc = "compress"
    /\ fileSize' = IF ok THEN newSize ELSE fileSize
    /\ CASE ~configured -> Respond(Thrown("not configured")) /\ UNCHANGED <<attempts, serverCalls>>
         [] ~keyOk -> Respond(Thrown("API key")) /\ UNCHANGED <<attempts, serverCalls>>
         [] OTHER -> StartServerCall /\ UNCHANGED response
    /\ UNCHANGED <<handler, typeOk, wait, inferCalls, players,
                   result, performanceData, reply, compressions>>
    /\ UNCHANGED unusedByClient
    /\ UNCHANGED failureVars
    /\ UNCHANGED acks
    /\ UNCHANGED samplerVars
    /\ UNCHANGED fallbackData
    /\ UNCHANGED initVars

\* The performance function answers, or the request fails or times out:
\* the retry loop of analyzePlayerPerformanceOnServer.
ServerResponse(outcome) ==
    /\ pc = "server"
    /\ CASE outcome = "success" ->
              /\ performanceData' = "validated"
              /\ Respond(Success("performance"))
              /\ UNCHANGED wait
         [] outcome # "success" /\ lastAttempt(attempts, maxAttempts_server) ->
              /\ Respond(Thrown(outcome))
              /\ UNCHANGED <<wait, performanceData>>
         [] OTHER ->
              /\ wait' = ServerRetryBaseDelay * attempts
              /\ pc' = "server backoff"
              /\ UNCHANGED <<response, performanceData>>
    /\ UNCHANGED <<handler, fileSize, typeOk, attempts, inferCalls, players,
                   result, reply, compressions, serverCalls>>
    /\ UNCHANGED unusedByClient
    /\ UNCHANGED failureVars
    /\ UNCHANGED acks
    /\ UNCHANGED samplerVars
    /\ UNCHANGED fallbackData
    /\ UNCHANGED initVars

\* The delay before the second request is over.
ServerRetryTimer ==
    /\ pc = "server backoff"
    /\ attempts' = attempts + 1
    /\ serverCalls' = serverCalls + 1
    /\ pc' = "server"
    /\ UNCHANGED <<handler, fileSize, typeOk, wait, inferCalls, players,
                   result, performanceData, reply, compressions, response>>
    /\ UNCHANGED unusedByClient
    /\ UNCHANGED failureVars
    /\ UNCHANGED acks
    /\ UNCHANGED samplerVars
    /\ UNCHANGED fallbackData
    /\ UNCHANGED initVars

NextClient ==
    \/ UploadAndAnalyzeVideo
    \/ \E ok \in BOOLEAN : FrameExtracted(ok)
    \/ \E ok \in BOOLEAN : ModelInitialized(ok)
    \/ \E failure \in ClientFailures : StaticFrameAttempt(failure, <<>>)
    \/ \E arr \in RawArrays : StaticFrameAttempt("none", arr)
    \/ UploadAndAnalyzeVideo_bestFrame
    \/ \E ok \in BOOLEAN : BestFrameExtracted(ok)
    \/ \E failure \in ClientFailures : FrameAttempt(failure, <<>>)
    \/ \E arr \in RawArrays : FrameAttempt("none", arr)
    \/ RetryTimer
    \/ \E nameOk, configured, keyOk \in BOOLEAN :
          AnalyzePlayerPerformance(nameOk, configured, keyOk)
    \/ \E ok, configured, keyOk \in BOOLEAN, newSize \in {1, RECOMMENDED_SIZE} :
          CompressionDone(ok, newSize, configured, keyOk)
    \/ \E outcome \in {"success", "not ok", "546", "no success", "timeout", "neterr"} :
          ServerResponse(outcome)
    \/ ServerRetryTimer

SpecClient == InitClient /\ [][NextClient]_vars

----------------------------------------------------------------------------
(* JSON extractors: extractJsonFromText and extractJsonFromString *)

\* The backquote, which a string of this language cannot hold, is written ^.
Backquote == "^"

Fence == <<Backquote, Backquote, Backquote>>
FenceJson == Fence \o <<"j", "s", "o", "n">>
Brace == {"{", "}"}

StartsWith(t, i, pat) ==
    /\ i >= 1
    /\ i + Len(pat) - 1 <= Len(t)
    /\ SubSeq(t, i, i + Len(pat) - 1) = pat

NoMatch == [found |-> FALSE, from |-> 0, to |-> 0]
Match(a, b) == [found |-> TRUE, from |-> a, to |-> b]

Matched(t, m) == SubSeq(t, m.from, m.to)

\* As jsonMatch, were the star of its regular expression lazy: from the
\* first '{' to the first '}' after it.
jsonMatch_lazy(t) ==
    LET first == indexOf(t, "{")
        close == IF first = 0 THEN 0 ELSE IndexIn(t, {"}"}, first + 1)
    IN IF close # 0 THEN Match(first, close) ELSE NoMatch

\* text.match(/\{[\s\S]*\}/): from the first '{' to the last '}'.
jsonMatch(t) ==
    LET first == indexOf(t, "{")
        last == lastIndexOf(t, "}")
    IN IF first # 0 /\ last > first THEN Match(first, last) ELSE NoMatch

\* The group of /^^^(?:json)?\s*(\{[\s\S]*?\})\s*^^^/ when the body starts
\* at index a, right after the opening fence and its optional tag: white
\* space, a '{', then up to the first '}' that white space and a fence follow.
CodeBlockBody(t, a) ==
    LET open == SkipSpace(t, a)
        closes == {e \in (open + 1)..Len(t) :
                      t[e] = "}" /\ StartsWith(t, SkipSpace(t, e + 1), Fence)}
    IN IF open <= Len(t) /\ t[open] = "{" /\ closes # {}
       THEN Match(open, CHOOSE e \in closes : \A f \in closes : e <= f)
       ELSE NoMatch

\* The same expression tried at the fence of index i: with the tag json
\* first, without it next.
CodeBlockAt(t, i) ==
    LET tagged == IF StartsWith(t, i, FenceJson)
                  THEN CodeBlockBody(t, i + Len(FenceJson)) ELSE NoMatch
    IN IF tagged.found THEN tagged ELSE CodeBlockBody(t, i + Len(Fence))

\* text.match of the code-block expression: the match of the leftmost fence
\* that has one.
codeBlockMatch(t) ==
    LET starts == {i \in 1..Len(t) :
                      StartsWith(t, i, Fence) /\ CodeBlockAt(t, i).found}
    IN IF starts = {} THEN NoMatch
       ELSE CodeBlockAt(t, CHOOSE i \in starts : \A j \in starts : i <= j)

\* The end of /[^{}]*(?:\{[^{}]*\}[^{}]*)*\}/ from index p: pairs of
\* braces one level deep, then the closing '}'; 0 when there is none.
RECURSIVE BalancedEnd(_, _)
BalancedEnd(t, p) ==
    LET b == IndexIn(t, Brace, p)
    IN IF b = 0 THEN 0
       ELSE IF t[b] = "}" THEN b
       ELSE LET q == IndexIn(t, Brace, b + 1)
            IN IF q # 0 /\ t[q] = "}" THEN BalancedEnd(t, q + 1) ELSE 0

\* text.match(/\{[^{}]*(?:\{[^{}]*\}[^{}]*)*\}/): the leftmost '{' that
\* opens such a match.
multilineMatch(t) ==
    LET starts == {i \in 1..Len(t) : t[i] = "{" /\ BalancedEnd(t, i + 1) # 0}
    IN IF starts = {} THEN NoMatch
       ELSE LET i == CHOOSE s \in starts : \A j \in starts : s <= j
            IN Match(i, BalancedEnd(t, i + 1))

\* t.replace(pat, '') with the flag g: every occurrence, left to right.
RECURSIVE RemoveAll(_, _)
RemoveAll(t, pat) ==
    IF t = <<>> THEN <<>>
    ELSE IF StartsWith(t, 1, pat)
    THEN RemoveAll(SubSeq(t, Len(pat) + 1, Len(t)), pat)
    ELSE <<t[1]>> \o RemoveAll(Tail(t), pat)

\* t.replace(/^\s*[\w\s]*?(?=\{)/, ''): the words and white space in front
\* of the first '{', when nothing else is in front of it.
RemoveLeadingWords(t) ==
    LET first == indexOf(t, "{")
    IN IF first # 0 /\ \A q \in 1..(first - 1) : t[q] \in Word \cup Space
       THEN SubSeq(t, first, Len(t))
       ELSE t

\* t.replace(/\}[\s\S]*$/, '}'): everything after the first '}'.
RemoveTrailingText(t) ==
    LET close == indexOf(t, "}")
    IN IF close = 0 THEN t ELSE SubSeq(t, 1, close)

trim(t) == SubSeq(t, SkipSpace(t, 1), LastIndexIn(t, Letter \cup Digit \cup Brace \cup {"_", "\"", ":", ",", ".", Backquote}, Len(t)))

cleanedText(t) ==
    trim(RemoveTrailingText(RemoveLeadingWords(
             RemoveAll(RemoveAll(t, FenceJson), Fence))))

ParseMatch(t, m) ==
    IF m.found THEN JSONparse(Matched(t, m)) ELSE [ok |-> FALSE, value |-> JNum(0)]

Extracted(p, method) == [ok |-> TRUE, value |-> p.value, method |-> method]
ExtractionThrown == [ok |-> FALSE, value |-> JNum(0), method |-> 0]

\* extractJsonFromText, index.ts:696-752: four methods in turn, the first
\* whose text parses returns.
extractJsonFromText(t) ==
    LET p1 == ParseMatch(t, jsonMatch(t))
        p2 == ParseMatch(t, codeBlockMatch(t))
        p3 == ParseMatch(t, multilineMatch(t))
        p4 == JSONparse(cleanedText(t))
    IN IF p1.ok THEN Extracted(p1, 1)
       ELSE IF p2.ok THEN Extracted(p2, 2)
       ELSE IF p3.ok THEN Extracted(p3, 3)
       ELSE IF p4.ok THEN Extracted(p4, 4)
       ELSE ExtractionThrown

\* extractJsonFromString, geminiAI.ts:99-114: the text from the first '{' to
\* the last '}', or an error.
extractJsonFromString(t) ==
    LET firstBrace == indexOf(t, "{")
        lastBrace == lastIndexOf(t, "}")
    IN IF firstBrace = 0 \/ lastBrace = 0 \/ firstBrace >= lastBrace
       THEN [ok |-> FALSE, string |-> <<>>]
       ELSE [ok |-> TRUE, string |-> SubSeq(t, firstBrace, lastBrace)]

\* The objects the model's answers hold.
Objects ==
    { JObj(<< <<(<<"a">>), JNum(1)>> >>),
      JObj(<< <<(<<"a">>), JNum(1)>>, <<(<<"b">>), JStr(<<"o", "k">>)>> >>),
      JObj(<< <<(<<"a">>), JObj(<< <<(<<"b">>), JNum(2)>> >>)>> >>),
      JObj(<< <<(<<"a">>), JObj(<< <<(<<"b">>), JObj(<< <<(<<"c">>), JNum(3)>> >>)>> >>)>> >>),
      JObj(<< <<(<<"a">>), JStr(<<"}">>)>> >>),
      JObj(<< <<(<<"a">>), JStr(<<"{", "x">>)>> >>),
      JObj(<< <<(<<"a">>), JStr(<<"{", "x", "}">>)>> >>),
      JObj(<<>>) }

\* What the answers put in front of the object: nothing, prose, a fence,
\* prose with braces.
Prefixes ==
    { <<>>,
      <<"o", "k", " ">>,
      <<"o", "k", ":", " ">>,
      FenceJson \o <<"\n">>,
      Fence \o <<"\n">>,
      <<"o", "k", ":", "\n">> \o FenceJson \o <<"\n">>,
      <<"o", "k", " ", "{", "x", "}", " ">>,
      <<"{", "x", "}", ":", "\n">> \o FenceJson \o <<"\n">>,
      <<"x", "}", " ">> }

\* What the answers put after the object.
Suffixes ==
    { <<>>,
      <<" ", "o", "k", ".">>,
      <<"\n">> \o Fence,
      <<"\n">> \o Fence \o <<"\n", "o", "k", ".">>,
      <<" ", "{", "y", "}">>,
      <<"\n">> \o Fence \o <<" ", "{", "y", "}">>,
      <<" ", "{", "y">> }

InitExtract ==
    /\ handler \in {"extractJsonFromText", "extractJsonFromString"}
    /\ pc = "extract"
    /\ wrapped \in [obj : Objects, prefix : Prefixes, suffix : Suffixes]
    /\ text = wrapped.prefix \o stringify(wrapped.obj) \o wrapped.suffix
    /\ extracted = NotExtracted
    /\ fileSize = 0
    /\ typeOk = TRUE
    /\ posts = 0
    /\ puts = <<>>
    /\ chunk = 0
    /\ checkInterval = 0
    /\ elapsed = 0
    /\ wait = 0
    /\ prevWait = 0
    /\ lastStatus = "none"
    /\ polls = FALSE
    /\ errs = 0
    /\ processing = 0
    /\ attempts = 0
    /\ inferCalls = 0
    /\ lastError = NoError
    /\ netErrors = 0
    /\ players = <<>>
    /\ result = <<>>
    /\ performanceData = "none"
    /\ deletes = 0
    /\ deleteOutcome = "none"
    /\ response = NoResponse
    /\ reply = <<>>
    /\ compressions = 0
    /\ serverCalls = 0
    /\ acks = <<>>
    /\ sampler = "none"
    /\ spc = "idle"
    /\ duration = 0
    /\ ratio = NoTime
    /\ numSamples = 0
    /\ samplePoints = <<>>
    /\ sampleIndex = 0
    /\ currentTime = NoTime
    /\ position = NoTime
    /\ seeks = 0
    /\ seeking = 0
    /\ seekedFor = 0
    /\ frames = <<>>
    /\ maxPlayerCount = 0
    /\ bestTimestamp = NoTime
    /\ settled = "pending"
    /\ returned = NoTime
    /\ fallbackData = NoData
    /\ PROD = FALSE
    /\ genAI = 0
    /\ model = 0
    /\ ipc = NotCalled
    /\ genAIInstance = NoInstance
    /\ constructed = 0
    /\ keyFetched = 0
    /\ got = NoInstance

unusedByExtractors == <<handler, fileSize, posts, puts, chunk, checkInterval,
                        elapsed, wait, prevWait, lastStatus, polls, errs,
                        processing, attempts, inferCalls, failureVars, players,
                        result, performanceData, deletes, deleteOutcome,
                        response, clientVars, wrapped, text>>

\* The server's extractor is applied to the text.
ExtractJsonFromText ==
    /\ handler = "extractJsonFromText"
    /\ pc = "extract"
    /\ extracted' = extractJsonFromText(text)
    /\ pc' = "done"
    /\ UNCHANGED unusedByExtractors
    /\ UNCHANGED acks
    /\ UNCHANGED samplerVars
    /\ UNCHANGED fallbackData
    /\ UNCHANGED initVars

\* The client's extractor is applied to the text and its string is parsed.
ExtractJsonFromString ==
    /\ handler = "extractJsonFromString"
    /\ pc = "extract"
    /\ extracted' =
           LET s == extractJsonFromString(text)
               p == IF s.ok THEN JSONparse(s.string)
                    ELSE [ok |-> FALSE, value |-> JNum(0)]
           IN IF p.ok THEN Extracted(p, 1) ELSE ExtractionThrown
    /\ pc' = "done"
    /\ UNCHANGED unusedByExtractors
    /\ UNCHANGED acks
    /\ UNCHANGED samplerVars
    /\ UNCHANGED fallbackData
    /\ UNCHANGED initVars

NextExtract ==
    \/ ExtractJsonFromText
    \/ ExtractJsonFromString

SpecExtract == InitExtract /\ [][NextExtract]_vars

----------------------------------------------------------------------------
(* Frame sampler: extractBestFrameFromVideo and extractFrameAtTimestamp *)

\* Times are fractions, compared by cross-multiplication; denominators
\* are positive.  The rounding of the floating-point division is left out.
RatEq(a, b) == a.num * b.den = b.num * a.den
RatLess(a, b) == a.num * b.den < b.num * a.den
RatMinus(a, b) == Rat(a.num * b.den - b.num * a.den, a.den * b.den)

\* Most players analyzeFrameForPlayerCount reports for a frame; the code
\* caps the number at 22.
MaxCount == 2

\* Durations of the video in tenths of a second: too short for a sample,
\* at and around the length that gives one more sample, and beyond the
\* cap of 15 samples.
Durations == {0, 15, 20, 39, 40, 65, 100, 300, 319, 450}

\* What the caller passes as timestampRatio; NoTime is the argument left out.
Ratios == {NoTime, Rat(1, 2), Rat(1, 4)}

\* timestampRatio: number = 0.5, geminiAI.ts:179.
timestampRatio(arg) == IF arg = NoTime THEN Rat(1, 2) ELSE arg

\* Math.min(15, Math.floor(duration / 2)), part_007:84.
NumSamples(d) == Min(15, d \div 20)

\* As samplePoint, were the duration divided by numSamples.
samplePoint_edge(d, n, i) == Rat(d * i, n)

\* (duration / (numSamples + 1)) * i, part_007:87.
samplePoint(d, n, i) == Rat(d * i, n + 1)

\* As resolved, were the loop not to wait for the seeked event.
resolved_nowait(f, k) == TRUE

\* await new Promise(resolve => { video.onseeked = resolve }), part_007:99-101:
\* the loop goes on once the seeked event of this iteration has come.
resolved(f, k) == f = k

InitSampler ==
    /\ sampler \in {"extractBestFrameFromVideo", "extractFrameAtTimestamp"}
    /\ spc = "load"
    /\ duration \in Durations
    /\ ratio \in IF sampler = "extractFrameAtTimestamp" THEN Ratios ELSE {NoTime}
    /\ numSamples = 0
    /\ samplePoints = <<>>
    /\ sampleIndex = 0
    /\ currentTime = NoTime
    /\ position = NoTime
    /\ seeks = 0
    /\ seeking = 0
    /\ seekedFor = 0
    /\ frames = <<>>
    /\ maxPlayerCount = 0
    /\ bestTimestamp = NoTime
    /\ settled = "pending"
    /\ returned = NoTime
    /\ handler = "none"
    /\ pc = "none"
    /\ fileSize = 1
    /\ typeOk = TRUE
    /\ posts = 0
    /\ puts = <<>>
    /\ acks = <<>>
    /\ chunk = 0
    /\ checkInterval = 0
    /\ elapsed = 0
    /\ wait = 0
    /\ prevWait = 0
    /\ lastStatus = "none"
    /\ polls = FALSE
    /\ errs = 0
    /\ processing = 0
    /\ attempts = 0
    /\ inferCalls = 0
    /\ lastError = NoError
    /\ netErrors = 0
    /\ players = <<>>
    /\ result = <<>>
    /\ performanceData = "none"
    /\ deletes = 0
    /\ deleteOutcome = "none"
    /\ response = NoResponse
    /\ reply = <<>>
    /\ compressions = 0
    /\ serverCalls = 0
    /\ wrapped = NotWrapped
    /\ text = <<>>
    /\ extracted = NotExtracted
    /\ fallbackData = NoData
    /\ PROD = FALSE
    /\ genAI = 0
    /\ model = 0
    /\ ipc = NotCalled
    /\ genAIInstance = NoInstance
    /\ constructed = 0
    /\ keyFetched = 0
    /\ got = NoInstance

unusedBySampler == <<handler, pc, fileSize, posts, puts, acks, chunk, fallbackData,
                     checkInterval, elapsed, wait, prevWait, lastStatus, polls,
                     errs, processing, attempts, inferCalls, failureVars,
                     players, result, performanceData, deletes, deleteOutcome,
                     response, clientVars, extractorVars>>

\* video.currentTime = t: the decoder starts a seek.
Seek(t) ==
    /\ currentTime' = t
    /\ seeks' = seeks + 1
    /\ seeking' = seeking + 1

\* resolve(...) of the promise the extraction returned; a promise that is
\* settled stays as it is.
Resolve(t) ==
    IF settled = "pending" THEN settled' = "resolved" /\ returned' = t
    ELSE UNCHANGED <<settled, returned>>
    /\ UNCHANGED fallbackData
    /\ UNCHANGED initVars

\* A frame drawn for timestamp t with the decoder where it is.
Frame(t) == [timestamp |-> t, position |-> position]

\* video.onloadedmetadata of extractBestFrameFromVideo, part_007:74-101 and
\* 127-131: the sample points are computed and the loop seeks to the first
\* one; with no sample point the loop is skipped, no best frame exists and
\* the middle of the video is sought.
LoadedMetadata ==
    /\ spc = "load"
    /\ sampler = "extractBestFrameFromVideo"
    /\ numSamples' = NumSamples(duration)
    /\ samplePoints' = [i \in 1..numSamples' |-> samplePoint(duration, numSamples', i)]
    /\ IF numSamples' > 0
       THEN /\ sampleIndex' = 1
            /\ Seek(samplePoints'[1])
            /\ spc' = "seeking"
       ELSE /\ Seek(Rat(duration, 2))
            /\ spc' = "fallback"
            /\ UNCHANGED sampleIndex
    /\ UNCHANGED <<sampler, duration, ratio, position, seekedFor, frames,
                   maxPlayerCount, bestTimestamp, settled, returned>>
    /\ UNCHANGED unusedBySampler
    /\ UNCHANGED fallbackData
    /\ UNCHANGED initVars

\* video.onerror, part_007:150-153 and geminiAI.ts:230-233.
VideoError ==
    /\ spc = "load"
    /\ settled' = "rejected"
    /\ spc' = "end"
    /\ UNCHANGED <<sampler, duration, ratio, numSamples, samplePoints,
                   sampleIndex, currentTime, position, seeks, seeking,
                   seekedFor, frames, maxPlayerCount, bestTimestamp, returned>>
    /\ UNCHANGED unusedBySampler
    /\ UNCHANGED fallbackData
    /\ UNCHANGED initVars

\* The timer of 180 s (30 s) fires before clearTimeout, part_007:70-72 and
\* geminiAI.ts:191-193: the promise is rejected; the handlers go on.
Timeout ==
    /\ spc # "end"
    /\ settled = "pending"
    /\ settled' = "rejected"
    /\ UNCHANGED <<sampler, spc, duration, ratio, numSamples, samplePoints,
                   sampleIndex, currentTime, position, seeks, seeking,
                   seekedFor, frames, maxPlayerCount, bestTimestamp, returned>>
    /\ UNCHANGED unusedBySampler
    /\ UNCHANGED fallbackData
    /\ UNCHANGED initVars

\* The decoder completes a seek and fires seeked while the loop waits:
\* video.onseeked is the resolve of the iteration, part_007:99-101.
Seeked ==
    /\ spc = "seeking"
    /\ seeking > 0
    /\ seeking' = seeking - 1
    /\ position' = currentTime
    /\ seekedFor' = sampleIndex
    /\ UNCHANGED <<sampler, spc, duration, ratio, numSamples, samplePoints,
                   sampleIndex, currentTime, seeks, frames, maxPlayerCount,
                   bestTimestamp, settled, returned>>
    /\ UNCHANGED unusedBySampler
    /\ UNCHANGED fallbackData
    /\ UNCHANGED initVars

\* The loop goes on after its wait, part_007:103-108: the frame is drawn
\* and handed to analyzeFrameForPlayerCount.
Draw ==
    /\ spc = "seeking"
    /\ resolved(seekedFor, sampleIndex)
    /\ frames' = Append(frames, Frame(samplePoints[sampleIndex]))
    /\ spc' = "count"
    /\ UNCHANGED <<sampler, duration, ratio, numSamples, samplePoints,
                   sampleIndex, currentTime, position, seeks, seeking,
                   seekedFor, maxPlayerCount, bestTimestamp, settled, returned>>
    /\ UNCHANGED unusedBySampler
    /\ UNCHANGED fallbackData
    /\ UNCHANGED initVars

\* analyzeFrameForPlayerCount returns c, part_007:108-118; the delay of
\* 200 ms starts.
Counted(c) ==
    /\ spc = "count"
    /\ IF c > maxPlayerCount
       THEN /\ maxPlayerCount' = c
            /\ bestTimestamp' = samplePoints[sampleIndex]
       ELSE UNCHANGED <<maxPlayerCount, bestTimestamp>>
    /\ spc' = "delay"
    /\ UNCHANGED <<sampler, duration, ratio, numSamples, samplePoints,
                   sampleIndex, currentTime, position, seeks, seeking,
                   seekedFor, frames, settled, returned>>
    /\ UNCHANGED unusedBySampler
    /\ UNCHANGED fallbackData
    /\ UNCHANGED initVars

\* The delay is over, part_007:118 and 96-99, 124-139: the loop seeks to
\* the next sample point; after the last one the best frame is returned,
\* or, when no frame showed a player, the middle of the video is sought.
DelayOver ==
    /\ spc = "delay"
    /\ CASE sampleIndex < numSamples ->
              /\ sampleIndex' = sampleIndex + 1
              /\ Seek(samplePoints[sampleIndex + 1])
              /\ spc' = "seeking"
              /\ UNCHANGED <<settled, returned>>
         [] sampleIndex = numSamples /\ maxPlayerCount > 0 ->
              /\ Resolve(bestTimestamp)
              /\ spc' = "end"
              /\ UNCHANGED <<sampleIndex, currentTime, seeks, seeking>>
         [] OTHER ->
              /\ Seek(Rat(duration, 2))
              /\ spc' = "fallback"
              /\ UNCHANGED <<sampleIndex, settled, returned>>
    /\ UNCHANGED <<sampler, duration, ratio, numSamples, samplePoints,
                   position, seekedFor, frames, maxPlayerCount, bestTimestamp>>
    /\ UNCHANGED unusedBySampler
    /\ UNCHANGED fallbackData
    /\ UNCHANGED initVars

\* video.onseeked of the fallback, part_007:131-137: the frame in the middle
\* is drawn and returned.
FallbackSeeked ==
    /\ spc = "fallback"
    /\ seeking > 0
    /\ seeking' = seeking - 1
    /\ position' = currentTime
    /\ frames' = Append(frames, [timestamp |-> Rat(duration, 2), position |-> currentTime])
    /\ Resolve(Rat(duration, 2))
    /\ spc' = "end"
    /\ UNCHANGED <<sampler, duration, ratio, numSamples, samplePoints,
                   sampleIndex, currentTime, seeks, seekedFor, maxPlayerCount,
                   bestTimestamp>>
    /\ UNCHANGED unusedBySampler
    /\ UNCHANGED fallbackData
    /\ UNCHANGED initVars

\* duration * timestampRatio in fractions.
targetTimestamp(d, r) == Rat(d * r.num, r.den)

\* video.onloadedmetadata of extractFrameAtTimestamp, geminiAI.ts:195-222:
\* the target is computed and sought, then onseeked is set.
LoadedMetadata_frame ==
    /\ spc = "load"
    /\ sampler = "extractFrameAtTimestamp"
    /\ Seek(targetTimestamp(duration, timestampRatio(ratio)))
    /\ spc' = "frame"
    /\ UNCHANGED <<sampler, duration, ratio, numSamples, samplePoints,
                   sampleIndex, position, seekedFor, frames, maxPlayerCount,
                   bestTimestamp, settled, returned>>
    /\ UNCHANGED unusedBySampler
    /\ UNCHANGED fallbackData
    /\ UNCHANGED initVars

\* video.onseeked of extractFrameAtTimestamp, geminiAI.ts:207-220: the frame
\* is drawn and returned with the target.
FrameSeeked ==
    /\ spc = "frame"
    /\ seeking > 0
    /\ seeking' = seeking - 1
    /\ position' = currentTime
    /\ frames' = Append(frames, [timestamp |-> targetTimestamp(duration, timestampRatio(ratio)),
                                 position |-> currentTime])
    /\ Resolve(targetTimestamp(duration, timestampRatio(ratio)))
    /\ spc' = "end"
    /\ UNCHANGED <<sampler, duration, ratio, numSamples, samplePoints,
                   sampleIndex, currentTime, seeks, seekedFor, maxPlayerCount,
                   bestTimestamp>>
    /\ UNCHANGED unusedBySampler
    /\ UNCHANGED fallbackData
    /\ UNCHANGED initVars

NextSampler ==
    \/ LoadedMetadata
    \/ VideoError
    \/ Timeout
    \/ Seeked
    \/ Draw
    \/ \E c \in 0..MaxCount : Counted(c)
    \/ DelayOver
    \/ FallbackSeeked
    \/ LoadedMetadata_frame
    \/ FrameSeeked

SpecSampler == InitSampler /\ [][NextSampler]_vars

----------------------------------------------------------------------------
(* Lazy initialization of the inference client: initializeGenAI *)

\* if (!this.model), if (genAI) return genAI
missing(ref) == ref = 0

InitCallers ==
    /\ sampler = "none"
    /\ spc = "idle"
    /\ duration = 0
    /\ ratio = NoTime
    /\ numSamples = 0
    /\ samplePoints = <<>>
    /\ sampleIndex = 0
    /\ currentTime = NoTime
    /\ position = NoTime
    /\ seeks = 0
    /\ seeking = 0
    /\ seekedFor = 0
    /\ frames = <<>>
    /\ maxPlayerCount = 0
    /\ bestTimestamp = NoTime
    /\ settled = "pending"
    /\ returned = NoTime
    /\ handler = "none"
    /\ pc = "none"
    /\ fileSize = 1
    /\ typeOk = TRUE
    /\ posts = 0
    /\ puts = <<>>
    /\ acks = <<>>
    /\ chunk = 0
    /\ checkInterval = 0
    /\ elapsed = 0
    /\ wait = 0
    /\ prevWait = 0
    /\ lastStatus = "none"
    /\ polls = FALSE
    /\ errs = 0
    /\ processing = 0
    /\ attempts = 0
    /\ inferCalls = 0
    /\ lastError = NoError
    /\ netErrors = 0
    /\ players = <<>>
    /\ result = <<>>
    /\ performanceData = "none"
    /\ deletes = 0
    /\ deleteOutcome = "none"
    /\ response = NoResponse
    /\ reply = <<>>
    /\ compressions = 0
    /\ serverCalls = 0
    /\ wrapped = NotWrapped
    /\ text = <<>>
    /\ extracted = NotExtracted
    /\ fallbackData = NoData
    /\ PROD \in BOOLEAN
    /\ genAI = 0
    /\ model = 0
    /\ ipc = NotCalled
    /\ genAIInstance = NoInstance
    /\ constructed = 0
    /\ keyFetched = 0
    /\ got = NoInstance

unusedByCallers == <<handler, pc, fileSize, posts, puts, acks, chunk,
                     fallbackData, checkInterval, elapsed, wait, prevWait,
                     lastStatus, polls, errs, processing, attempts,
                     inferCalls, failureVars, players, result,
                     performanceData, deletes, deleteOutcome, response,
                     clientVars, extractorVars, samplerVars>>

\* genAI = new GoogleGenerativeAI(apiKey); return genAI
Construct(c) ==
    /\ constructed' = constructed + 1
    /\ genAI' = constructed + 1
    /\ genAIInstance' = [genAIInstance EXCEPT ![c] = constructed + 1]
    /\ ipc' = [ipc EXCEPT ![c] = "resolved"]

\* A caller enters ensureModelInitialized and runs to its first suspension:
\* the model it has already, or initializeGenAI up to its await.
ensureModelInitialized(c, hasKey) ==
    /\ ipc[c] = "idle"
    /\ IF ~missing(model)
       THEN /\ got' = [got EXCEPT ![c] = model]
            /\ ipc' = [ipc EXCEPT ![c] = "returned"]
            /\ UNCHANGED <<genAI, genAIInstance, constructed>>
       ELSE IF ~missing(genAI)
       THEN /\ genAIInstance' = [genAIInstance EXCEPT ![c] = genAI]
            /\ ipc' = [ipc EXCEPT ![c] = "resolved"]
            /\ UNCHANGED <<genAI, constructed, got>>
       ELSE IF PROD
       THEN /\ ipc' = [ipc EXCEPT ![c] = "getApiKeyFromBackend"]
            /\ UNCHANGED <<genAI, genAIInstance, constructed, got>>
       ELSE IF hasKey
       THEN /\ Construct(c)
            /\ UNCHANGED got
       ELSE /\ ipc' = [ipc EXCEPT ![c] = "rejected"]
            /\ UNCHANGED <<genAI, genAIInstance, constructed, got>>
    /\ UNCHANGED <<PROD, model, keyFetched>>
    /\ UNCHANGED unusedByCallers

\* The request of getApiKeyFromBackend is answered, or fails.
KeyResponse(c, outcome) ==
    /\ ipc[c] = "getApiKeyFromBackend"
    /\ IF outcome = "ok"
       THEN /\ keyFetched' = keyFetched + 1
            /\ Construct(c)
       ELSE /\ ipc' = [ipc EXCEPT ![c] = "rejected"]
            /\ UNCHANGED <<genAI, genAIInstance, constructed, keyFetched>>
    /\ UNCHANGED <<PROD, model, got>>
    /\ UNCHANGED unusedByCallers

\* The await of ensureModelInitialized resumes:
\* this.model = genAIInstance.getGenerativeModel(...); return this.model
Resumed(c) ==
    /\ ipc[c] = "resolved"
    /\ model' = genAIInstance[c]
    /\ got' = [got EXCEPT ![c] = genAIInstance[c]]
    /\ ipc' = [ipc EXCEPT ![c] = "returned"]
    /\ UNCHANGED <<PROD, genAI, genAIInstance, constructed, keyFetched>>
    /\ UNCHANGED unusedByCallers

NextCallers ==
    \/ \E c \in Callers : \E hasKey \in BOOLEAN : ensureModelInitialized(c, hasKey)
    \/ \E c \in Callers : \E outcome \in {"ok", "notok", "neterr"} : KeyResponse(c, outcome)
    \/ \E c \in Callers : Resumed(c)

SpecCallers == InitCallers /\ [][NextCallers]_vars

----------------------------------------------------------------------------
(* Properties of the server functions *)

\* Network calls made to the remote services so far.
NetworkCalls == posts + Len(puts) + inferCalls + deletes + (IF polls THEN 1 ELSE 0)

\* The file takes the chunked branch of uploadVideoToFilesAPI.
Chunked == handler = "performance" /\ fileSize > MAX_CHUNK_SIZE

\* The finalizing PUT was acknowledged.
Uploaded == polls

\* n is the least number of chunks of MAX_CHUNK_SIZE that hold size.
IsCeil(n, size) ==
    /\ n * MAX_CHUNK_SIZE >= size
    /\ (n - 1) * MAX_CHUNK_SIZE < size

\* C1: for a file above the chunk threshold the PUTs issued so far start at
\* offset 0, each later one starts where the one before it ended (so the
\* offsets increase strictly), the finalize command is carried by the
\* ceil(size / chunk size)-th PUT and by no other, and once the upload is
\* acknowledged there are exactly ceil(size / chunk size) PUTs whose lengths
\* sum to the file size.
C1_ChunkedPuts ==
    Chunked =>
        /\ \A k \in 1..Len(puts) :
              /\ k = 1 => puts[k].offset = 0
              /\ k > 1 => /\ puts[k].offset = puts[k-1].offset + puts[k-1].length
                          /\ puts[k].offset > puts[k-1].offset
              /\ puts[k].length > 0
              /\ puts[k].length <= MAX_CHUNK_SIZE
              /\ puts[k].command = "upload, finalize" <=> IsCeil(k, fileSize)
              /\ puts[k].command \in {"upload", "upload, finalize"}
        /\ Uploaded =>
              /\ IsCeil(Len(puts), fileSize)
              /\ puts[Len(puts)].offset + puts[Len(puts)].length = fileSize

\* A chunked upload of three chunks with a short last chunk was acknowledged.
C1_Witness ==
    /\ Chunked
    /\ Uploaded
    /\ Len(puts) = 3
    /\ puts[3].length < MAX_CHUNK_SIZE

\* C2: for an empty file no network call is made and the request ends
\* with an error.
C2_EmptyRejected ==
    fileSize = 0 =>
        /\ NetworkCalls = 0
        /\ pc = "done" => ~response.success

\* C3: no network call is made for a file above 2 GiB.
C3_TooLargeRejected ==
    fileSize > MAX_FILE_SIZE => NetworkCalls = 0

\* C4: the waits of the performance function's poller start at 5 s, never
\* decrease from one wait to the next, and never exceed 30 s.
C4_Waits ==
    (handler = "performance" /\ pc = "sleep") =>
        /\ wait <= 30000 * TicksPerMs
        /\ wait >= prevWait
        /\ prevWait = 0 => wait = 5000 * TicksPerMs

\* The poller waits the full 30 s after a wait of 30 s, with failed status
\* requests behind it.
C4_Witness ==
    /\ handler = "performance"
    /\ pc = "sleep"
    /\ errs > 0
    /\ prevWait = 30000 * TicksPerMs
    /\ wait = 30000 * TicksPerMs

\* The waits do grow: a wait longer than the one before it.
C4_WitnessGrowth ==
    /\ handler = "performance"
    /\ pc = "sleep"
    /\ prevWait > 0
    /\ wait > prevWait

\* C5: a status poll that reports FAILED ends the poller at once, with the
\* processing error.
C5_FailedEndsPoller ==
    lastStatus = "FAILED" => (pc = "done" /\ response.error = "failed")

\* C6: the poller never fails because a status request failed.
C6_StatusErrorTolerated ==
    response.error # "status"

\* C10: no element of the players array that is mapped into the returned
\* result set is flagged as a referee.
C10_NoReferee ==
    \A i \in 1..Len(result) : ~players[i].isReferee


\* The candidate {id 1, x 10, y 10, width 8, height 18, confidence 0.9,
\* team home}, without a jersey.
OnePlayer ==
    RawPlayer(Num(1), Num(10), Num(10), Num(8), Num(18), Num(90), Undef, "home", FALSE)

\* C11: when every inference call failed on the network, the detection
\* function has made exactly maxAttempts calls and answers with a non-empty
\* fallback set that is flagged as degraded.
C11_NetworkFailuresDegrade ==
    (pc = "done" /\ handler = "detection" /\ inferCalls > 0 /\ netErrors = inferCalls)
        => /\ inferCalls = maxAttempts_detection
           /\ Len(result) > 0
           /\ response.success
           /\ response.warning

\* C12: the 1.5 GiB asset whose status was polled five times before ACTIVE
\* and whose analysis replied with the one player is uploaded in 15 PUTs, and
\* the answer is one detection with every field, jersey 1 by default.
C12_EndToEnd ==
    (/\ pc = "done"
     /\ fileSize = LargeAsset
     /\ processing = 5
     /\ players = <<OnePlayer>>
     /\ response.success)
        => /\ Len(puts) = 15
           /\ Len(result) = 1
           /\ DOMAIN result[1] = {"id", "x", "y", "width", "height", "confidence",
                                  "jersey", "team", "isReferee"}
           /\ result[1].jersey = 1

\* C14: while the last error of the inference loop is an auth or quota
\* error, the loop neither makes nor waits for another attempt.
C14_AuthQuotaNotRetried ==
    lastError.cause \in AuthQuota => pc \notin {"infer", "backoff"}

\* C15: a request whose finalizing PUT succeeded does not end before a DELETE
\* has been issued for the asset.
C15_AssetDeleted ==
    (pc = "done" /\ polls) => deletes > 0

\* C16: however the DELETE call ended, the handler's answer is the one it
\* gives after a successful deletion.
C16_DeleteFailureIgnored ==
    (pc = "done" /\ deleteOutcome # "none") => response = Answer

\* C16 witness: the detection function's inference failed on every attempt,
\* the DELETE call threw, and the handler answered with success.
C16_Witness ==
    /\ pc = "done"
    /\ handler = "detection"
    /\ players = FallbackPlayers_detection
    /\ deleteOutcome = "neterr"
    /\ response.success

\* C17: an attempt that found a level of candidates[0].content.parts[0].text
\* absent ends with the "no valid candidate" error.
C17_AbsentLevelIsNoCandidate ==
    lastError.cause \in AbsentLevels => lastError.error = "no valid candidate"

\* The number of attempts of the inference loop of the function that runs.
MaxAttemptsOf(h) == IF h = "performance" THEN maxRetries ELSE maxAttempts_detection

\* C22: attempt k + 1 of an inference loop starts only when a delay of k
\* times 2 s that followed the failure of attempt k is over, whatever the
\* failure was, and no delay follows the last attempt.
C22_LinearBackoff ==
    /\ [](pc = "backoff" => attempts < MaxAttemptsOf(handler))
    /\ [][(attempts > 0 /\ attempts' = attempts + 1) =>
             (pc = "backoff" /\ wait = RetryBaseDelay * attempts)]_vars

\* C26: an inference request is issued only when every PUT of the upload
\* was acknowledged, the last of them with the finalize command, and the
\* latest status poll of the file reported ACTIVE.
C26_PipelineOrder ==
    inferCalls > 0 =>
        /\ Len(puts) > 0
        /\ Len(acks) = Len(puts)
        /\ \A i \in 1..Len(acks) : acks[i] = "ok"
        /\ puts[Len(puts)].command = "upload, finalize"
        /\ polls
        /\ lastStatus = "ACTIVE"

\* C26: the performance function issues its inference request after a
\* chunked upload and a poll that found the file still processing.
C26_Witness ==
    /\ handler = "performance"
    /\ pc = "infer"
    /\ Len(puts) = 2
    /\ processing > 0
    /\ lastStatus = "ACTIVE"

\* C27: the data generated when every attempt failed is the same in
\* every run: it is the data of the run whose random draws were all 0.
C27_FallbackDeterministic ==
    (pc = "done" /\ performanceData = "fallback") =>
        fallbackData = generateFallbackPerformanceData(0, 0)

\* waitForFileProcessing runs.
Polling == pc \in {"status", "sleep"}

\* C28: a status request is in flight only if less than maxWaitTime had
\* passed when it was started; between two requests at least 5 s pass, so
\* the requests are bounded in number; and the call ends.
C28_PollerTerminates ==
    /\ [](pc = "status" => elapsed < MaxWaitOf(handler))
    /\ [][(pc = "sleep" /\ pc' = "status") =>
             (elapsed' >= elapsed + FixedCheckInterval)]_vars
    /\ Polling ~> ~Polling

\* C28: the poller of the performance function gave up after its 600 s.
C28_Witness ==
    /\ handler = "performance"
    /\ pc = "done"
    /\ response.error = "timeout"
    /\ elapsed >= maxWaitTime

RECURSIVE SumLengths(_, _)
\* Bytes carried by the first n PUTs.
SumLengths(ps, n) == IF n = 0 THEN 0 ELSE SumLengths(ps, n - 1) + ps[n].length

\* PUTs issued and not yet answered.
InFlight == Len(puts) - Len(acks)

\* Bytes of the PUTs acknowledged with success.
bytesSent == SumLengths(puts, Cardinality({i \in 1..Len(acks) : acks[i] = "ok"}))

\* C21: at most one PUT is in flight; every PUT but the first was issued
\* after the PUT before it was acknowledged with success and starts where
\* that one ended; a PUT that failed is the last one and the request
\* fails; the bytes acknowledged never exceed the size of the file.
C21_SequentialChunks ==
    /\ InFlight \in {0, 1}
    /\ \A i \in 2..Len(puts) :
          /\ acks[i - 1] = "ok"
          /\ puts[i].offset = SumLengths(puts, i - 1)
    /\ \A i \in 1..Len(acks) :
          acks[i] # "ok" => (i = Len(puts) /\ pc = "done" /\ ~response.success)
    /\ bytesSent <= fileSize

\* C21: the second chunk of a chunked upload failed after the first was
\* acknowledged.
C21_Witness ==
    /\ handler = "performance"
    /\ fileSize > MAX_CHUNK_SIZE
    /\ Len(puts) = 2
    /\ acks = <<"ok", "notok">>
    /\ pc = "done"

----------------------------------------------------------------------------
(* Properties of the client service *)

\* Work the client started for the file: compression runs, inference calls
\* and requests to the server.
ClientWork == compressions + inferCalls + serverCalls

\* The client methods reject an empty file before any of that.
ClientEmptyRejected ==
    fileSize = 0 => (ClientWork = 0 /\ (pc = "done" => ~response.success))

\* The client methods reject a file above 2 GiB before any of that.
ClientTooLargeRejected ==
    (fileSize > MAX_FILE_SIZE /\ compressions = 0) =>
        (ClientWork = 0 /\ (pc = "done" => ~response.success))

InRange(lo, hi, v) == lo <= v /\ v <= hi

\* C8: every returned detection has x, y, width and height in [0,100] and
\* lies within the frame: x + width <= 100 and y + height <= 100.
C8_BoxesInFrame ==
    \A i \in 1..Len(result) :
        /\ InRange(0, 100, result[i].x)
        /\ InRange(0, 100, result[i].y)
        /\ InRange(0, 100, result[i].width)
        /\ InRange(0, 100, result[i].height)
        /\ result[i].x + result[i].width <= 100
        /\ result[i].y + result[i].height <= 100

\* A candidate with x = 150 whose other fields pass the filter.
OnlyXOutOfRange(player) ==
    /\ player.x = Num(150)
    /\ validPlayer([player EXCEPT !.x = Num(0)])

\* C9: a candidate of the reply with x = 150 and otherwise valid fields is
\* kept by the filter, and where it is returned its x is at most
\* 100 - width.
C9_OutOfRangeClamped ==
    \A i \in 1..Len(reply) :
        OnlyXOutOfRange(reply[i]) =>
            \E j \in 1..Len(players) :
                /\ players[j] = reply[i]
                /\ j <= Len(result) => result[j].x <= 100 - result[j].width

\* The client filter does drop every flagged candidate.
ClientNoReferee ==
    \A i \in 1..Len(players) : ~players[i].isReferee

\* The two versions of the detection step of the client.
FrameHandlers == {"uploadAndAnalyzeVideo", "analyzeFrameForPlayers"}

\* The filter, the default configuration and the map of the version that runs.
Kept(arr) ==
    IF handler = "analyzeFrameForPlayers" THEN filteredPlayers(arr)
    ELSE validPlayers(arr)
Fallback ==
    IF handler = "analyzeFrameForPlayers" THEN FallbackPlayers_frame
    ELSE FallbackPlayers
Processed(ps) ==
    IF handler = "analyzeFrameForPlayers" THEN processedPlayers_frame(ps)
    ELSE processedPlayers(ps)

\* The detection step returned a result set to the caller.
Returned == pc = "done" /\ handler \in FrameHandlers /\ response.success

\* C13: a returned result set is never empty: it is the map of the fixed
\* default configuration, or the map of the candidates of the last reply
\* that passed the filter, of which there is at least one.
C13_ResultNonEmpty ==
    Returned =>
        /\ Len(result) > 0
        /\ \/ players = Fallback /\ result = Processed(Fallback)
           \/ /\ Len(players) > 0
              /\ players = Kept(reply)
              /\ result = Processed(players)

\* C13: every attempt failed, the last one with a reply whose candidates
\* were all filtered out, and the default configuration was returned.
C13_Witness ==
    /\ Returned
    /\ handler = "uploadAndAnalyzeVideo"
    /\ attempts = maxAttempts
    /\ Len(reply) > 0
    /\ validPlayers(reply) = <<>>
    /\ Len(result) = Len(FallbackPlayers)

\* C18: in every returned result set each id is a positive integer and no
\* two detections share an id.
C18_IdsPositiveUnique ==
    (Returned /\ handler = "uploadAndAnalyzeVideo") =>
        /\ \A i \in 1..Len(result) : result[i].id > 0
        /\ \A i, j \in 1..Len(result) :
              result[i].id = result[j].id => i = j

\* C19: a candidate of the reply whose confidence is below 0.6 is not among
\* the candidates the filter keeps, in either version of the detection step.
C19_LowConfidenceDropped ==
    handler \in FrameHandlers =>
        \A i \in 1..Len(reply) :
            (IsNumber(reply[i].confidence) /\ reply[i].confidence.v < 60) =>
                \A j \in 1..Len(players) : players[j] # reply[i]

\* Errors thrown before the inference step starts: by the checks of the
\* file and by the extraction of the frame.
BeforeInference == {"format", "empty", "too large", "frame"}

\* C20: the detection step never ends with an error to the caller for a
\* failure of the inference step, client initialization included: an error
\* comes from the steps before it only.
C20_InferenceFailureFallsBack ==
    (pc = "done" /\ handler \in FrameHandlers /\ ~response.success) =>
        response.error \in BeforeInference

\* The retry loop of the client method that runs was entered.
Attempted == attempts > 0

\* Requests the retry loop has issued, and the most it may issue.
Calls == IF handler = "analyzePlayerPerformance" THEN serverCalls ELSE inferCalls
MaxCalls ==
    CASE handler = "analyzePlayerPerformance" -> maxAttempts_server
      [] handler = "analyzeFrameForPlayers" -> maxAttempts_frame
      [] OTHER -> maxAttempts

\* The loop was left by an attempt that succeeded.
SUCCESS ==
    /\ pc = "done"
    /\ Attempted
    /\ IF handler = "analyzePlayerPerformance" THEN response.success
       ELSE Len(Kept(reply)) > 0 /\ players = Kept(reply)

\* The loop was left by the failure of its last attempt.
EXHAUSTED ==
    /\ pc = "done"
    /\ Attempted
    /\ attempts = MaxCalls
    /\ IF handler = "analyzePlayerPerformance" THEN ~response.success
       ELSE Len(Kept(reply)) = 0 /\ players = Fallback

C23_WitnessExhausted ==
    /\ EXHAUSTED
    /\ handler = "analyzePlayerPerformance"

\* The handler has returned.
Answered == pc = "done"

\* One of the answers the handlers build with JSON.stringify: an error with
\* status 400, 413 or 500, or a success with status 200.
JsonAnswer(r) ==
    /\ r.json
    /\ \/ r.status \in {400, 413, 500} /\ ~r.success /\ r.error # "none"
       \/ r.status = 200 /\ r.success

\* The result data a success carries: the detections, or the performance
\* data, analysed or generated.
CarriesData(r) ==
    /\ r.data # "none"
    /\ handler = "detection" => Len(players) > 0
    /\ handler = "performance" =>
          /\ r.data = performanceData
          /\ performanceData \in {"validated", "fallback"}
          /\ performanceData = "fallback" => fallbackData # NoData

\* C30 as stated: whatever the request and whatever fails, the handler
\* returns one response, with status 400, 413 or 500, or with status 200 and
\* a success flag, and a success carries result data.
C30_OneResponse ==
    Answered => (JsonAnswer(response) /\ (response.success => CarriesData(response)))

\* C30 as amended: the handler returns one response, and does so only once;
\* but for the answer to a CORS preflight request it has status 400, 413 or
\* 500, or status 200 and a success flag, and a success carries result data.
C30_OneResponseButPreflight ==
    /\ [](Answered <=> response # NoResponse)
    /\ [](Answered =>
            \/ response = Preflight
            \/ JsonAnswer(response) /\ (response.success => CarriesData(response)))
    /\ [][response' # response => (~Answered /\ Answered')]_vars

\* C30 witness: every attempt of the performance analysis failed and the
\* DELETE call was refused; the handler answered 200 with generated data.
C30_Witness ==
    /\ Answered
    /\ handler = "performance"
    /\ attempts = maxRetries
    /\ deleteOutcome = "notok"
    /\ response.success
    /\ response.warning
    /\ response.data = "fallback"

----------------------------------------------------------------------------
(* Properties of the frame sampler *)

\* C24: the n sample points of a video of duration d are d * i / (n + 1)
\* for i = 1..n: n of them, each strictly between 0 and d, strictly
\* increasing and evenly spaced; the single-frame variant seeks to d times
\* the ratio, which is 0.5 when it is left out.
C24_SamplePoints ==
    /\ (sampler = "extractBestFrameFromVideo" /\ spc # "load") =>
          /\ Len(samplePoints) = numSamples
          /\ \A i \in 1..numSamples :
                /\ RatEq(samplePoints[i], Rat(duration * i, numSamples + 1))
                /\ RatLess(Rat(0, 1), samplePoints[i])
                /\ RatLess(samplePoints[i], Rat(duration, 1))
                /\ i < numSamples =>
                      /\ RatLess(samplePoints[i], samplePoints[i + 1])
                      /\ RatEq(RatMinus(samplePoints[i + 1], samplePoints[i]),
                               Rat(duration, numSamples + 1))
    /\ (sampler = "extractFrameAtTimestamp" /\ spc # "load" /\ seeks > 0) =>
          /\ ratio # NoTime => RatEq(currentTime, Rat(duration * ratio.num, ratio.den))
          /\ ratio = NoTime => RatEq(currentTime, Rat(duration, 2))

\* C24: the extraction sampled a video at three or more points and drew a
\* frame at each.
C24_Witness ==
    /\ sampler = "extractBestFrameFromVideo"
    /\ numSamples >= 3
    /\ Len(frames) = numSamples
    /\ spc = "end"

\* C25: at most one seek is outstanding; a seek is started only when the
\* frames of all seeks before it are drawn; a frame is drawn when the
\* decoder has reached the position that was sought for it.
C25_SeeksSequenced ==
    /\ seeking \in {0, 1}
    /\ Len(frames) <= seeks
    /\ seeks - Len(frames) <= 1
    /\ seeking = 1 => Len(frames) = seeks - 1
    /\ \A j \in 1..Len(frames) : frames[j].position = frames[j].timestamp

\* C25: the loop has drawn two frames and waits for its third seek.
C25_Witness ==
    /\ sampler = "extractBestFrameFromVideo"
    /\ spc = "seeking"
    /\ Len(frames) = 2
    /\ seeking = 1

----------------------------------------------------------------------------
(* Properties of the JSON extractors *)

HasBrace(t) == \E i \in 1..Len(t) : t[i] \in Brace

\* The extractor has run on the text.
ExtractorRan == pc = "done" /\ handler \in {"extractJsonFromText", "extractJsonFromString"}

\* C7 as stated: whatever prose or fences surround the object, braces in the
\* prose included, the extractor returns exactly the object that was wrapped.
C7_RoundTrip ==
    ExtractorRan => (extracted.ok /\ extracted.value = wrapped.obj)

\* C7, amended: when the text around the object holds no brace (prose and
\* fences only; braces may still occur inside the object's string values and
\* nested objects), the extractor returns exactly the object that was wrapped.
C7_RoundTripBraceFreeProse ==
    (ExtractorRan /\ ~HasBrace(wrapped.prefix) /\ ~HasBrace(wrapped.suffix))
        => (extracted.ok /\ extracted.value = wrapped.obj)

\* C7 witness: an object with a brace inside a string value, fenced and
\* followed by prose, has been extracted by extractJsonFromText.
C7_Witness ==
    /\ ExtractorRan
    /\ handler = "extractJsonFromText"
    /\ wrapped.prefix # <<>>
    /\ wrapped.suffix # <<>>
    /\ ~HasBrace(wrapped.prefix)
    /\ ~HasBrace(wrapped.suffix)
    /\ \E i \in 1..Len(wrapped.obj.m) : HasBrace(wrapped.obj.m[i][2].s)
    /\ extracted.ok
    /\ extracted.value = wrapped.obj

----------------------------------------------------------------------------
(* Properties of the client initialization *)

\* C29: at most one inference client is constructed per process: callers of
\* ensureModelInitialized that overlap before the first initialization has
\* completed all get the same instance, and the API key is fetched once.
C29_SingleClient ==
    /\ constructed <= 1
    /\ keyFetched <= 1
    /\ \A c, d \in Callers :
          (ipc[c] = "returned" /\ ipc[d] = "returned") => got[c] = got[d]

====
